---------------------------- MODULE Spec2Model ----------------------------
(***************************************************************************)
(* Headlamp "Projects" feature: the selector matcher (matchesProject,      *)
(* matchesLabelSelector, getProjectResources) and the per-kind health      *)
(* rules of the project resources table.                                   *)
(*                                                                         *)
(* The matcher and the health rules are pure functions.  They are          *)
(* operators here, and the state machine applies them to inputs taken from *)
(* bounded sets: `project' is the ProjectDefinition handed to the matcher, *)
(* built one selector at a time, and `call' records the last call made     *)
(* (its arguments and what it returned).                                   *)
(***************************************************************************)
EXTENDS Naturals, Integers, Sequences, FiniteSets

VARIABLES
    project,    \* the ProjectDefinition the matcher is called with
    pc,         \* "edit": inputs are being chosen; "called": a function returned
    call,       \* the last call: function name, arguments, results
    state,      \* the ProjectsState of the store
    localStorage,   \* the items of localStorage
    clock,      \* the time, in dispatches
    last,       \* the last dispatch: action, payload, the state before it
    route,      \* the page shown: route name and its projectId parameter
    form,       \* ProjectForm: the project being edited and the errors shown
    details,    \* ProjectDetails: whether the delete dialog is open
    yaml        \* CreateNew: the inputs and the creation state

matchVars == <<project, pc, call>>
storeVars == <<state, localStorage, clock, last>>
uiVars == <<route, form, details, yaml>>
vars == <<project, pc, call, state, localStorage, clock, last, route, form, details, yaml>>

(***************************************************************************)
(* Bounds of the model.                                                    *)
(***************************************************************************)
\* Selectors in one project, summed over its four selector groups.
MaxSelectors == 3
\* Length of the resource list handed to getProjectResources.
MaxResources == 2
\* Largest replica / pod count a workload reports.
MaxReplicas == 2
\* Length of a pod's status.conditions.
MaxConditions == 2
\* Number of actions dispatched to the store; the time of the last one.
MaxClock == 3
\* Number of projects submitted from the forms, each at its own time.
MaxSubmits == 2

(***************************************************************************)
(* Values.  A JavaScript `undefined' string is the value below; no label,  *)
(* namespace, cluster or selector value of the model equals it.  An        *)
(* optional number is <<>> (undefined) or <<n>>.                           *)
(***************************************************************************)
undefined == "undefined"

Kinds == {"Deployment", "Pod"}
Clusters == {"cluster-a", "cluster-b"}
Namespaces == {"default", "other"}
LabelKeys == {"app", "tier"}
LabelValues == {"shop", "cart"}

\* ProjectForm offers four operators for a label selector
OPERATOR_OPTIONS == {"Equals", "NotEquals", "Exists", "NotExists"}

\* labelSelectors: Record<string, StringSelector>, its operator set in the form
LabelSelectorValues == [operator : OPERATOR_OPTIONS, value : LabelValues]
\* namespaceSelectors, clusterSelectors: StringSelector[], two operators declared
NamespaceSelectorValues == [operator : {"Equals", "NotEquals"}, value : Namespaces]
ClusterSelectorValues == [operator : {"Equals", "NotEquals"}, value : Clusters]
ApiResourceValues == [kind : Kinds]

\* A labels mapping: a function from the keys that are present to their values.
LabelMaps == UNION {[D -> LabelValues] : D \in SUBSET LabelKeys}

NoLabels == [k \in {} |-> undefined]

(***************************************************************************)
(* KubeObject, as far as the matcher reads it: kind, cluster and metadata. *)
(* metadata may be missing (hasMetadata = FALSE), and so may               *)
(* metadata.namespace (undefined) and metadata.labels (hasLabels = FALSE). *)
(***************************************************************************)
KubeObject ==
    { r \in [kind : Kinds, cluster : Clusters, hasMetadata : BOOLEAN,
             namespace : Namespaces \cup {undefined},
             hasLabels : BOOLEAN, labels : LabelMaps] :
        /\ (~r.hasMetadata => r.namespace = undefined /\ ~r.hasLabels)
        /\ (~r.hasLabels => r.labels = NoLabels) }

\* resource.metadata?.namespace
metadataNamespace(resource) ==
    IF resource.hasMetadata THEN resource.namespace ELSE undefined

\* resource.metadata?.labels || {}
metadataLabels(resource) ==
    IF resource.hasMetadata /\ resource.hasLabels THEN resource.labels ELSE NoLabels

\* labels[key]: undefined for a key the mapping does not hold
labelValue(labels, key) ==
    IF key \in DOMAIN labels THEN labels[key] ELSE undefined

\* matchesLabelSelector with NotEquals requiring the label to be present.
matchesLabelSelector_notEqualsNeedsLabel(resource, key, selector) ==
    LET value == labelValue(metadataLabels(resource), key)
    IN  CASE selector.operator = "Equals" -> value = selector.value
          [] selector.operator = "NotEquals" ->
                 value # undefined /\ value # selector.value
          [] OTHER -> FALSE

\* matchesLabelSelector with the two operators of the form's list it lacks.
matchesLabelSelector_withExists(resource, key, selector) ==
    LET value == labelValue(metadataLabels(resource), key)
    IN  CASE selector.operator = "Equals" -> value = selector.value
          [] selector.operator = "NotEquals" -> value # selector.value
          [] selector.operator = "Exists" -> value # undefined
          [] selector.operator = "NotExists" -> value = undefined
          [] OTHER -> FALSE

(***************************************************************************)
(* matchesLabelSelector (projectUtils)                                     *)
(***************************************************************************)
matchesLabelSelector(resource, key, selector) ==
    LET value == labelValue(metadataLabels(resource), key)
    IN  CASE selector.operator = "Equals" -> value = selector.value
          [] selector.operator = "NotEquals" -> value # selector.value
          [] OTHER -> FALSE

(***************************************************************************)
(* matchesProject (projectUtils): the four checks, in the order of the     *)
(* code, each under the name of the constant the code binds it to.         *)
(***************************************************************************)
\* project.apiResources.some(apiResource => apiResource.kind === resource.kind)
matchesApiResource(resource, proj) ==
    \E i \in 1..Len(proj.apiResources) : proj.apiResources[i].kind = resource.kind

\* project.clusterSelectors.some(cluster => cluster.value === resource.cluster)
matchesCluster(resource, proj) ==
    \E i \in 1..Len(proj.clusterSelectors) :
        proj.clusterSelectors[i].value = resource.cluster

\* project.namespaceSelectors.some(ns => ns.value === resourceNamespace)
matchesNamespace(resource, proj) ==
    LET resourceNamespace == metadataNamespace(resource)
    IN  \E i \in 1..Len(proj.namespaceSelectors) :
            proj.namespaceSelectors[i].value = resourceNamespace

\* matchesLabels with some() in the place of every().
matchesLabels_some(resource, proj) ==
    \E key \in DOMAIN proj.labelSelectors :
        matchesLabelSelector(resource, key, proj.labelSelectors[key])

\* Object.entries(project.labelSelectors).every(([key, selector]) => ...)
matchesLabels(resource, proj) ==
    \A key \in DOMAIN proj.labelSelectors :
        matchesLabelSelector(resource, key, proj.labelSelectors[key])

\* matchesProject without its last check (`if no selectors are defined').
matchesProject_noEmptyCheck(resource, proj) ==
    IF Len(proj.apiResources) > 0 /\ ~matchesApiResource(resource, proj)
    THEN FALSE
    ELSE IF Len(proj.clusterSelectors) > 0 /\ ~matchesCluster(resource, proj)
    THEN FALSE
    ELSE IF Len(proj.namespaceSelectors) > 0 /\ ~matchesNamespace(resource, proj)
    THEN FALSE
    ELSE IF Cardinality(DOMAIN proj.labelSelectors) > 0
            /\ ~matchesLabels(resource, proj)
    THEN FALSE
    ELSE TRUE

\* matchesProject with the apiResources check entered for two entries or more.
matchesProject_apiLengthOffByOne(resource, proj) ==
    IF Len(proj.apiResources) > 1 /\ ~matchesApiResource(resource, proj)
    THEN FALSE
    ELSE IF Len(proj.clusterSelectors) > 0 /\ ~matchesCluster(resource, proj)
    THEN FALSE
    ELSE IF Len(proj.namespaceSelectors) > 0 /\ ~matchesNamespace(resource, proj)
    THEN FALSE
    ELSE IF Cardinality(DOMAIN proj.labelSelectors) > 0
            /\ ~matchesLabels(resource, proj)
    THEN FALSE
    ELSE IF Cardinality(DOMAIN proj.labelSelectors) = 0
            /\ Len(proj.namespaceSelectors) = 0
    THEN FALSE
    ELSE TRUE

matchesProject(resource, proj) ==
    IF Len(proj.apiResources) > 0 /\ ~matchesApiResource(resource, proj)
    THEN FALSE
    ELSE IF Len(proj.clusterSelectors) > 0 /\ ~matchesCluster(resource, proj)
    THEN FALSE
    ELSE IF Len(proj.namespaceSelectors) > 0 /\ ~matchesNamespace(resource, proj)
    THEN FALSE
    ELSE IF Cardinality(DOMAIN proj.labelSelectors) > 0
            /\ ~matchesLabels(resource, proj)
    THEN FALSE
    ELSE IF Cardinality(DOMAIN proj.labelSelectors) = 0
            /\ Len(proj.namespaceSelectors) = 0
    THEN FALSE
    ELSE TRUE

(***************************************************************************)
(* The TypeErrors of the two matchers.  The only reads that go through a   *)
(* value that may be undefined are those of resource.metadata, and both    *)
(* (resource.metadata?.labels, resource.metadata?.namespace) are optional  *)
(* chains: with metadata undefined they give undefined.                    *)
(***************************************************************************)
\* The reads of resource.metadata written with a plain `.'.
metadataReadRaises_plainAccess(resource) ==
    ~resource.hasMetadata

OptionalChain == TRUE

metadataReadRaises(resource) ==
    ~resource.hasMetadata /\ ~OptionalChain

\* matchesLabelSelector reads resource.metadata?.labels first.
matchesLabelSelectorRaises(resource, key, selector) ==
    metadataReadRaises(resource)

\* matchesProject reads resource.metadata when it reaches the namespace
\* check, and in matchesLabelSelector when it reaches the label check.
matchesProjectRaises(resource, proj) ==
    IF Len(proj.apiResources) > 0 /\ ~matchesApiResource(resource, proj)
    THEN FALSE
    ELSE IF Len(proj.clusterSelectors) > 0 /\ ~matchesCluster(resource, proj)
    THEN FALSE
    ELSE IF Len(proj.namespaceSelectors) > 0 /\ metadataReadRaises(resource)
    THEN TRUE
    ELSE IF Len(proj.namespaceSelectors) > 0 /\ ~matchesNamespace(resource, proj)
    THEN FALSE
    ELSE \E key \in DOMAIN proj.labelSelectors :
             matchesLabelSelectorRaises(resource, key, proj.labelSelectors[key])

\* getProjectResources collecting the matches back to front.
RECURSIVE getProjectResources_reversed(_, _)
getProjectResources_reversed(proj, resources) ==
    IF resources = <<>> THEN <<>>
    ELSE LET rest == getProjectResources_reversed(proj, Tail(resources))
         IN  IF matchesProject(Head(resources), proj)
             THEN rest \o <<Head(resources)>>
             ELSE rest

(***************************************************************************)
(* getProjectResources (projectUtils): Array.prototype.filter, front to    *)
(* back, keeping the elements the predicate accepts.                       *)
(***************************************************************************)
RECURSIVE getProjectResources(_, _)
getProjectResources(proj, resources) ==
    IF resources = <<>> THEN <<>>
    ELSE LET rest == getProjectResources(proj, Tail(resources))
         IN  IF matchesProject(Head(resources), proj)
             THEN <<Head(resources)>> \o rest
             ELSE rest

(***************************************************************************)
(* The health column of ProjectResourcesTab.  A workload, as far as the    *)
(* column reads it: kind, spec.replicas, and the status fields.  spec and  *)
(* status may be missing; every number, status.phase and                   *)
(* status.conditions may be missing on its own.                            *)
(***************************************************************************)
WorkloadKinds == {"Deployment", "StatefulSet", "DaemonSet", "Pod", "ReplicaSet"}
OptionalCount == {<<>>} \cup {<<n>> : n \in 0..MaxReplicas}
Phases == {undefined, "Running", "Pending", "Failed", "CrashLoopBackOff"}
Conditions == [type : {"Ready", "PodScheduled"}, status : {"True", "False"}]
ConditionLists == UNION {[1..n -> Conditions] : n \in 0..MaxConditions}

Workload ==
    { w \in [kind : WorkloadKinds, hasSpec : BOOLEAN, replicas : OptionalCount,
             hasStatus : BOOLEAN, readyReplicas : OptionalCount,
             numberReady : OptionalCount, desiredNumberScheduled : OptionalCount,
             phase : Phases,
             conditions : {<<>>} \cup {<<l>> : l \in ConditionLists}] :
        /\ (~w.hasSpec => w.replicas = <<>>)
        /\ (~w.hasStatus => /\ w.readyReplicas = <<>>
                            /\ w.numberReady = <<>>
                            /\ w.desiredNumberScheduled = <<>>
                            /\ w.phase = undefined
                            /\ w.conditions = <<>>) }

\* spec?.replicas
specReplicas(resource) ==
    IF resource.hasSpec THEN resource.replicas ELSE <<>>

\* status?.readyReplicas, status?.numberReady, status?.desiredNumberScheduled
statusCount(resource, field) ==
    IF resource.hasStatus THEN resource[field] ELSE <<>>

\* x || 0 for an optional number
orZero(x) ==
    IF x = <<>> THEN 0 ELSE x[1]

\* pod.status?.conditions || []
podConditions(resource) ==
    IF resource.hasStatus /\ resource.conditions # <<>>
    THEN resource.conditions[1] ELSE <<>>

\* conditions.find(c => c.type === 'Ready')?.status === 'True'
podReady(resource) ==
    LET conditions == podConditions(resource)
        found == {i \in 1..Len(conditions) : conditions[i].type = "Ready"}
    IN  /\ found # {}
        /\ conditions[CHOOSE i \in found : \A j \in found : i <= j].status = "True"

\* accessorFn with the two rules of a Pod in the other order.
healthAccessorFn_pendingFirst(resource) ==
    LET kind == resource.kind
        phase == IF resource.hasStatus THEN resource.phase ELSE undefined
    IN  IF kind = "Deployment" \/ kind = "StatefulSet"
        THEN IF statusCount(resource, "readyReplicas") = <<0>> THEN "Unhealthy"
             ELSE IF orZero(statusCount(resource, "readyReplicas"))
                        < orZero(specReplicas(resource)) THEN "Degraded"
             ELSE "Healthy"
        ELSE IF kind = "DaemonSet"
        THEN IF statusCount(resource, "numberReady") = <<0>> THEN "Unhealthy"
             ELSE IF orZero(statusCount(resource, "numberReady"))
                        < orZero(statusCount(resource, "desiredNumberScheduled"))
                  THEN "Degraded"
             ELSE "Healthy"
        ELSE IF kind = "Pod"
        THEN IF phase = "Pending" \/ ~podReady(resource) THEN "Pending"
             ELSE IF phase = "Failed" \/ phase = "CrashLoopBackOff" THEN "Failed"
             ELSE "Healthy"
        ELSE "Healthy"

\* accessorFn with ReplicaSet handled like Deployment and StatefulSet, as the
\* details column of the same table does.
healthAccessorFn_replicaSetRule(resource) ==
    LET kind == resource.kind
        phase == IF resource.hasStatus THEN resource.phase ELSE undefined
    IN  IF kind = "Deployment" \/ kind = "StatefulSet" \/ kind = "ReplicaSet"
        THEN IF statusCount(resource, "readyReplicas") = <<0>> THEN "Unhealthy"
             ELSE IF orZero(statusCount(resource, "readyReplicas"))
                        < orZero(specReplicas(resource)) THEN "Degraded"
             ELSE "Healthy"
        ELSE IF kind = "DaemonSet"
        THEN IF statusCount(resource, "numberReady") = <<0>> THEN "Unhealthy"
             ELSE IF orZero(statusCount(resource, "numberReady"))
                        < orZero(statusCount(resource, "desiredNumberScheduled"))
                  THEN "Degraded"
             ELSE "Healthy"
        ELSE IF kind = "Pod"
        THEN IF phase = "Failed" \/ phase = "CrashLoopBackOff" THEN "Failed"
             ELSE IF phase = "Pending" \/ ~podReady(resource) THEN "Pending"
             ELSE "Healthy"
        ELSE "Healthy"

\* columns[health].accessorFn
healthAccessorFn(resource) ==
    LET kind == resource.kind
        phase == IF resource.hasStatus THEN resource.phase ELSE undefined
    IN  IF kind = "Deployment" \/ kind = "StatefulSet"
        THEN IF statusCount(resource, "readyReplicas") = <<0>> THEN "Unhealthy"
             ELSE IF orZero(statusCount(resource, "readyReplicas"))
                        < orZero(specReplicas(resource)) THEN "Degraded"
             ELSE "Healthy"
        ELSE IF kind = "DaemonSet"
        THEN IF statusCount(resource, "numberReady") = <<0>> THEN "Unhealthy"
             ELSE IF orZero(statusCount(resource, "numberReady"))
                        < orZero(statusCount(resource, "desiredNumberScheduled"))
                  THEN "Degraded"
             ELSE "Healthy"
        ELSE IF kind = "Pod"
        THEN IF phase = "Failed" \/ phase = "CrashLoopBackOff" THEN "Failed"
             ELSE IF phase = "Pending" \/ ~podReady(resource) THEN "Pending"
             ELSE "Healthy"
        ELSE "Healthy"

\* The Cell of the health column with `<=' for `<' in the rule of a
\* Deployment or StatefulSet.
healthCellText_notAbove(resource) ==
    LET kind == resource.kind
    IN  IF kind = "Deployment" \/ kind = "StatefulSet"
        THEN IF statusCount(resource, "readyReplicas") = <<0>> THEN "Unhealthy"
             ELSE IF orZero(statusCount(resource, "readyReplicas"))
                        <= orZero(specReplicas(resource)) THEN "Degraded"
             ELSE "Healthy"
        ELSE healthAccessorFn(resource)

\* columns[health].Cell, healthText: it starts as 'Healthy' and the branch of
\* the kind may set it; the status of getStatus only chooses the icon.
healthCellText(resource) ==
    LET kind == resource.kind
        phase == IF resource.hasStatus THEN resource.phase ELSE undefined
        inDeployment ==
            IF statusCount(resource, "readyReplicas") = <<0>> THEN <<"Unhealthy">>
            ELSE IF orZero(statusCount(resource, "readyReplicas"))
                       < orZero(specReplicas(resource)) THEN <<"Degraded">>
            ELSE <<>>
        inDaemonSet ==
            IF statusCount(resource, "numberReady") = <<0>> THEN <<"Unhealthy">>
            ELSE IF orZero(statusCount(resource, "numberReady"))
                       < orZero(statusCount(resource, "desiredNumberScheduled"))
            THEN <<"Degraded">>
            ELSE <<>>
        inPod ==
            IF phase = "Failed" \/ phase = "CrashLoopBackOff" THEN <<"Failed">>
            ELSE IF phase = "Pending" \/ ~podReady(resource) THEN <<"Pending">>
            ELSE <<>>
        assigned ==
            IF kind = "Deployment" THEN inDeployment
            ELSE IF kind = "StatefulSet" THEN inDeployment
            ELSE IF kind = "DaemonSet" THEN inDaemonSet
            ELSE IF kind = "Pod" THEN inPod
            ELSE <<>>
    IN  IF assigned = <<>> THEN "Healthy" ELSE assigned[1]

(***************************************************************************)
(* getHealthIcon (projectUtils).  Its parameters are declared numbers; the *)
(* callers pass the buckets of getResourcesHealth, which may be missing,   *)
(* so an argument is an optional number.  With an undefined argument the  *)
(* sum is NaN, and NaN === 0, undefined > 0 are both false.                *)
(***************************************************************************)
IconCounts == {<<>>} \cup {<<n>> : n \in 0..MaxResources}

\* healthy + unhealthy + warning === 0
sumIsZero(healthy, unhealthy, warning) ==
    /\ healthy # <<>> /\ unhealthy # <<>> /\ warning # <<>>
    /\ healthy[1] + unhealthy[1] + warning[1] = 0

\* x > 0 for an optional number
isPositive(x) ==
    x # <<>> /\ x[1] > 0

\* getHealthIcon testing warning before unhealthy.
getHealthIcon_warningFirst(healthy, unhealthy, warning) ==
    IF sumIsZero(healthy, unhealthy, warning) THEN "mdi:help-circle"
    ELSE IF isPositive(warning) THEN "mdi:alert"
    ELSE IF isPositive(unhealthy) THEN "mdi:alert-circle"
    ELSE "mdi:check-circle"

getHealthIcon(healthy, unhealthy, warning) ==
    IF sumIsZero(healthy, unhealthy, warning) THEN "mdi:help-circle"
    ELSE IF isPositive(unhealthy) THEN "mdi:alert-circle"
    ELSE IF isPositive(warning) THEN "mdi:alert"
    ELSE "mdi:check-circle"

(***************************************************************************)
(* getStatus (resourceMap/nodes/KubeObjectStatus) is imported by           *)
(* projectUtils and is not among the source files: it is the per-kind      *)
(* table of spec.md 4.2, a missing number counting as 0.                   *)
(***************************************************************************)
KubeObjectStatus == {"success", "warning", "error"}

getStatus(resource) ==
    LET kind == resource.kind
        phase == IF resource.hasStatus THEN resource.phase ELSE undefined
        ready == IF kind = "DaemonSet"
                 THEN orZero(statusCount(resource, "numberReady"))
                 ELSE orZero(statusCount(resource, "readyReplicas"))
        desired == IF kind = "DaemonSet"
                   THEN orZero(statusCount(resource, "desiredNumberScheduled"))
                   ELSE orZero(specReplicas(resource))
    IN  IF kind \in {"Deployment", "StatefulSet", "DaemonSet"}
        THEN IF ready = 0 THEN "error"
             ELSE IF ready < desired THEN "warning"
             ELSE "success"
        ELSE IF kind = "Pod"
        THEN IF phase = "Failed" \/ phase = "CrashLoopBackOff" THEN "error"
             ELSE IF phase = "Pending" \/ ~podReady(resource) THEN "warning"
             ELSE "success"
        ELSE "success"

(***************************************************************************)
(* getResourcesHealth (projectUtils): lodash countBy(resources, getStatus) *)
(* returns an object that has a key for each status that occurs, its value *)
(* the number of occurrences, and no key for a status that does not occur. *)
(***************************************************************************)
getResourcesHealth(resources) ==
    [status \in {getStatus(resources[i]) : i \in 1..Len(resources)} |->
        Cardinality({i \in 1..Len(resources) : getStatus(resources[i]) = status})]

\* projectHealth.success, projectHealth.warning, projectHealth.error
bucket(health, status) ==
    IF status \in DOMAIN health THEN <<health[status]>> ELSE <<>>

\* The icon of the health column of ProjectList:
\* getHealthIcon(projectHealth.success, projectHealth.error, projectHealth.warning)
projectHealthIcon(resources) ==
    LET projectHealth == getResourcesHealth(resources)
    IN  getHealthIcon(bucket(projectHealth, "success"), bucket(projectHealth, "error"),
                      bucket(projectHealth, "warning"))

\* The workloads of the test `computes healthy/warning/unhealthy correctly
\* across kinds', in the order of the test, and a ReplicaSet.
fixtureWorkload(kind, replicas, ready, desiredScheduled, phase, podIsReady) ==
    [kind |-> kind, hasSpec |-> TRUE,
     replicas |-> IF kind \in {"Deployment", "StatefulSet", "ReplicaSet"}
                  THEN <<replicas>> ELSE <<>>,
     hasStatus |-> TRUE,
     readyReplicas |-> IF kind \in {"Deployment", "StatefulSet", "ReplicaSet"}
                       THEN <<ready>> ELSE <<>>,
     numberReady |-> IF kind = "DaemonSet" THEN <<ready>> ELSE <<>>,
     desiredNumberScheduled |-> IF kind = "DaemonSet" THEN <<desiredScheduled>>
                                ELSE <<>>,
     phase |-> IF kind = "Pod" THEN phase ELSE undefined,
     conditions |-> IF kind = "Pod"
                    THEN << <<[type |-> "Ready",
                               status |-> IF podIsReady THEN "True" ELSE "False"]>> >>
                    ELSE <<>>]

healthFixture ==
    << fixtureWorkload("Deployment", 3, 3, 0, undefined, FALSE),
       fixtureWorkload("StatefulSet", 2, 0, 0, undefined, FALSE),
       fixtureWorkload("DaemonSet", 0, 1, 3, undefined, FALSE),
       fixtureWorkload("Pod", 0, 0, 0, "Running", TRUE),
       fixtureWorkload("Pod", 0, 0, 0, "Pending", FALSE),
       fixtureWorkload("Pod", 0, 0, 0, "Failed", FALSE) >>

SampleWorkloads ==
    {healthFixture[i] : i \in 1..Len(healthFixture)}
        \cup {fixtureWorkload("ReplicaSet", 2, 0, 0, undefined, FALSE)}

\* The lists getResourcesHealth is called with: the short ones, and the fixture.
WorkloadLists ==
    UNION {[1..n -> SampleWorkloads] : n \in 0..MaxResources} \cup {healthFixture}

(***************************************************************************)
(* The projects slice (projectsSlice): the store of project definitions,   *)
(* its reducers, and the copy of state.projects kept in localStorage.      *)
(* state.projects is an object: a sequence of entries [key, value] in the  *)
(* order the keys were inserted, no key twice.                             *)
(***************************************************************************)
PROJECTS_STORAGE_KEY == "headlamp-projects"

\* Ids, for the id of a payload and for the id the reducer generates.
ProjectIds == {"project-1", "project-2"}

defaultApiResources ==
    << [kind |-> "ConfigMap"], [kind |-> "Endpoints"],
       [kind |-> "PersistentVolumeClaim"], [kind |-> "Secret"],
       [kind |-> "Service"], [kind |-> "StatefulSet"], [kind |-> "ReplicaSet"],
       [kind |-> "Deployment"], [kind |-> "DaemonSet"], [kind |-> "Job"],
       [kind |-> "CronJob"], [kind |-> "IngressClass"], [kind |-> "Ingress"],
       [kind |-> "NetworkPolicy"], [kind |-> "StorageClass"],
       [kind |-> "HorizontalPodAutoscaler"], [kind |-> "Role"],
       [kind |-> "RoleBinding"] >>

\* The payloads of createOrUpdateProjectAction: id, createdAt and apiResources
\* are optional; updatedAt comes with createdAt, as in the form and the test.
PayloadBodies ==
    { [name |-> "a", description |-> undefined, labelSelectors |-> NoLabels,
       namespaceSelectors |-> <<[operator |-> "Equals", value |-> "default"]>>,
       clusterSelectors |-> <<>>, apiResources |-> <<>>],
      [name |-> "b", description |-> "d",
       labelSelectors |-> [k \in {"app"} |-> [operator |-> "Equals", value |-> "shop"]],
       namespaceSelectors |-> <<>>,
       clusterSelectors |-> <<[operator |-> "Equals", value |-> "cluster-a"]>>,
       apiResources |-> << <<[kind |-> "Pod"]>> >>] }

Payloads ==
    { [id |-> id, name |-> body.name, description |-> body.description,
       labelSelectors |-> body.labelSelectors,
       namespaceSelectors |-> body.namespaceSelectors,
       clusterSelectors |-> body.clusterSelectors,
       createdAt |-> at, updatedAt |-> at, apiResources |-> body.apiResources] :
          id \in {undefined} \cup ProjectIds, body \in PayloadBodies,
          at \in {<<>>, <<0>>} }

\* A ProjectDefinition, as importProjects receives it.
definition(id, name, at) ==
    [id |-> id, name |-> name, description |-> undefined, labelSelectors |-> NoLabels,
     namespaceSelectors |-> <<[operator |-> "Equals", value |-> "other"]>>,
     clusterSelectors |-> <<>>, createdAt |-> at, updatedAt |-> at,
     apiResources |-> <<>>]

ImportLists ==
    { <<>>,
      <<definition("project-1", "x", 0)>>,
      <<definition("project-1", "x", 0), definition("project-1", "y", 0)>>,
      <<definition("project-2", "z", 0), definition("project-1", "y", 0)>>,
      <<definition("project-2", "z", 0)>> }

\* The entries customCreateProject, detailsTabs, overviewSections register.
RegistryPayloads == {[id |-> "plugin"]}

NoRegistry == [id \in {} |-> [id |-> id]]

\* key in state.projects
hasKey(projects, key) ==
    \E i \in 1..Len(projects) : projects[i].key = key

\* state.projects[key]
valueOf(projects, key) ==
    (CHOOSE entry \in {projects[i] : i \in 1..Len(projects)} : entry.key = key).value

\* Object.keys(state.projects)
keysOf(projects) ==
    {projects[i].key : i \in 1..Len(projects)}

\* An assignment that takes the key out and puts it at the end.
setKey_moveToEnd(projects, key, value) ==
    Append(SelectSeq(projects, LAMBDA entry : entry.key # key),
           [key |-> key, value |-> value])

\* state.projects[key] = value: a key the object has keeps its place.
setKey(projects, key, value) ==
    IF hasKey(projects, key)
    THEN [i \in 1..Len(projects) |->
             IF projects[i].key = key THEN [key |-> key, value |-> value]
             ELSE projects[i]]
    ELSE Append(projects, [key |-> key, value |-> value])

\* delete that takes the entries after the key with it.
deleteKey_andRest(projects, key) ==
    IF \E i \in 1..Len(projects) : projects[i].key = key
    THEN SubSeq(projects, 1,
                (CHOOSE i \in 1..Len(projects) : projects[i].key = key) - 1)
    ELSE projects

\* delete state.projects[key]
deleteKey(projects, key) ==
    SelectSeq(projects, LAMBDA entry : entry.key # key)

\* JSON.stringify of one project: a property whose value is undefined is
\* left out (of the properties modelled, description is the optional one).
stringifyProject(value) ==
    [field \in DOMAIN value \ (IF value.description = undefined THEN {"description"}
                               ELSE {}) |-> value[field]]

\* JSON.stringify(projects): the entries in the order of the keys.
JSON_stringify(projects) ==
    [i \in 1..Len(projects) |->
        [key |-> projects[i].key, value |-> stringifyProject(projects[i].value)]]

\* localStorage is the mapping from the keys that are set to their items.
EmptyStorage == [key \in {} |-> <<>>]

\* saveProjectsToStorage that swallows the write.
saveProjectsToStorage_noWrite(storage, projects, writeFails) ==
    storage

\* saveProjectsToStorage: setItem may throw (the quota is exceeded, storage is
\* disabled); the error is caught and logged and the item stays as it was.
saveProjectsToStorage(storage, projects, writeFails) ==
    IF writeFails THEN storage
    ELSE [key \in DOMAIN storage \cup {PROJECTS_STORAGE_KEY} |->
             IF key = PROJECTS_STORAGE_KEY THEN JSON_stringify(projects)
             ELSE storage[key]]

\* loadProjectsFromStorage: {} when the item is not set.
\* JSON.parse of a stored item: a property that was left out reads undefined.
JSON_parse(item) ==
    [i \in 1..Len(item) |->
        [key |-> item[i].key,
         value |-> [field \in DOMAIN item[i].value \cup {"description"} |->
                       IF field \in DOMAIN item[i].value THEN item[i].value[field]
                       ELSE undefined]]]

loadProjectsFromStorage(storage) ==
    IF PROJECTS_STORAGE_KEY \in DOMAIN storage
    THEN JSON_parse(storage[PROJECTS_STORAGE_KEY])
    ELSE <<>>

initialState ==
    [projects |-> loadProjectsFromStorage(EmptyStorage),
     customCreateProject |-> NoRegistry, detailsTabs |-> NoRegistry,
     overviewSections |-> NoRegistry]

\* The project with createdAt set to now whatever the payload holds.
projectOf_createdNow(payload, id, now) ==
    [id |-> IF payload.id # undefined THEN payload.id ELSE id,
     name |-> payload.name, description |-> payload.description,
     labelSelectors |-> payload.labelSelectors,
     namespaceSelectors |-> payload.namespaceSelectors,
     clusterSelectors |-> payload.clusterSelectors,
     createdAt |-> now,
     updatedAt |-> now,
     apiResources |-> IF payload.apiResources # <<>> THEN payload.apiResources[1]
                      ELSE defaultApiResources]

\* The project createOrUpdateProjectAction stores: the payload's properties,
\* then id, createdAt, updatedAt and apiResources.
projectOf(payload, id, now) ==
    [id |-> IF payload.id # undefined THEN payload.id ELSE id,
     name |-> payload.name, description |-> payload.description,
     labelSelectors |-> payload.labelSelectors,
     namespaceSelectors |-> payload.namespaceSelectors,
     clusterSelectors |-> payload.clusterSelectors,
     createdAt |-> IF payload.createdAt # <<>> THEN payload.createdAt[1] ELSE now,
     updatedAt |-> now,
     apiResources |-> IF payload.apiResources # <<>> THEN payload.apiResources[1]
                      ELSE defaultApiResources]

\* The import that keeps the entry of a key it has already set.
RECURSIVE forEachImport_firstWins(_, _)
forEachImport_firstWins(projects, list) ==
    IF list = <<>> THEN projects
    ELSE setKey(forEachImport_firstWins(projects, Tail(list)),
                Head(list).id, Head(list))

\* action.payload.forEach(project => { state.projects[project.id] = project })
RECURSIVE forEachImport(_, _)
forEachImport(projects, list) ==
    IF list = <<>> THEN projects
    ELSE forEachImport(setKey(projects, Head(list).id, Head(list)), Tail(list))

\* The record of the last dispatch: the action, its payload, the id generated,
\* whether the write to localStorage failed, and the state before it.
NoDispatch ==
    [type |-> "none", payload |-> <<>>, id |-> "", list |-> <<>>,
     generated |-> "", writeFailed |-> FALSE, before |-> initialState]

(***************************************************************************)
(* The pages.  route is the route shown and its projectId parameter.       *)
(***************************************************************************)
ProjectsRoute == [name |-> "projects", projectId |-> undefined]

\* Object.values(projectsState).find(p => p.id === projectId)
hasProjectWithId(projects, projectId) ==
    \E i \in 1..Len(projects) : projects[i].value.id = projectId

findProject(projects, projectId) ==
    projects[CHOOSE i \in 1..Len(projects) :
                /\ projects[i].value.id = projectId
                /\ \A j \in 1..(i - 1) : projects[j].value.id # projectId].value

(***************************************************************************)
(* ProjectForm.  A name is a sequence of characters, so that trim() is     *)
(* computed.                                                               *)
(***************************************************************************)
FormNames == {<<>>, <<" ">>, <<"a">>, <<" ", "b">>}

RECURSIVE trimStart(_)
trimStart(name) ==
    IF name # <<>> /\ Head(name) = " " THEN trimStart(Tail(name)) ELSE name

RECURSIVE trimEnd(_)
trimEnd(name) ==
    IF name # <<>> /\ name[Len(name)] = " "
    THEN trimEnd(SubSeq(name, 1, Len(name) - 1))
    ELSE name

\* name.trim()
trim(name) ==
    trimEnd(trimStart(name))

\* The project of a create form (useState initializer).
initialProject ==
    [name |-> <<>>, description |-> "", labelSelectors |-> NoLabels,
     namespaceSelectors |-> <<>>, clusterSelectors |-> <<>>,
     apiResources |-> defaultApiResources]

\* The last change or removal of a label selector row: the arguments of the
\* handler and the labelSelectors before it.
NoEvent ==
    [handler |-> "none", key |-> "", field |-> "", value |-> "", before |-> NoLabels]

NoForm == [project |-> initialProject, errors |-> {}, event |-> NoEvent]

\* The keys and values typed into a label selector row.
FormKeys == {"", "app", "tier", "constructor"}
FormSelectorValues == {"", "shop"}

\* The properties a plain object inherits from Object.prototype.
PrototypeKeys ==
    {"constructor", "hasOwnProperty", "isPrototypeOf", "propertyIsEnumerable",
     "toLocaleString", "toString", "valueOf", "__proto__"}

\* !newSelectors[value] is false: the object has the key (a selector is an
\* object, which is truthy) or inherits a property of that name.
isTruthy(selectors, key) ==
    key \in DOMAIN selectors \/ key \in PrototypeKeys

\* addLabelSelector: { ...prev.labelSelectors, ['']: { value: '', operator: 'Equals' } }
withEmptySelector(selectors) ==
    [k \in DOMAIN selectors \cup {""} |->
        IF k = "" THEN [value |-> "", operator |-> "Equals"] ELSE selectors[k]]

\* removeLabelSelector: delete newSelectors[key]
withoutSelector(selectors, key) ==
    [k \in DOMAIN selectors \ {key} |-> selectors[k]]

\* handleLabelSelectorChange(key, 'key', value)
renameSelector(selectors, key, value) ==
    IF key # value /\ ~isTruthy(selectors, value)
    THEN [k \in (DOMAIN selectors \ {key}) \cup {value} |->
             IF k = value THEN selectors[key] ELSE selectors[k]]
    ELSE selectors

\* handleLabelSelectorChange(key, 'operator' | 'value', value)
changeSelector(selectors, key, field, value) ==
    [selectors EXCEPT ![key] = [@ EXCEPT ![field] = value]]

\* The namespaces the Autocomplete of the form hands to its onChange.
FormNamespaceValues == {<<>>, <<"default">>}

\* handleSubmit with the name tested untrimmed.
newErrors_untrimmed(formProject) ==
    (IF formProject.name = <<>> THEN {"name"} ELSE {})
        \cup (IF Cardinality(DOMAIN formProject.labelSelectors) = 0
                 /\ Len(formProject.namespaceSelectors) = 0
              THEN {"labelSelectors"} ELSE {})

\* handleSubmit, the validation: the keys of newErrors.
newErrors(formProject) ==
    (IF trim(formProject.name) = <<>> THEN {"name"} ELSE {})
        \cup (IF Cardinality(DOMAIN formProject.labelSelectors) = 0
                 /\ Len(formProject.namespaceSelectors) = 0
              THEN {"labelSelectors"} ELSE {})

\* handleSubmit, projectData: createdAt and updatedAt are the time of the submit.
projectData(formProject, id, now) ==
    [id |-> id, name |-> formProject.name, description |-> formProject.description,
     labelSelectors |-> formProject.labelSelectors,
     namespaceSelectors |-> formProject.namespaceSelectors,
     clusterSelectors |-> formProject.clusterSelectors,
     createdAt |-> <<now>>, updatedAt |-> <<now>>,
     apiResources |-> <<formProject.apiResources>>]

(***************************************************************************)
(* ProjectCreateFromYaml (CreateNew).  yaml is the state of the component  *)
(* and of its run of createProjectFromYaml; applyCalls and applyResolved   *)
(* are what the cluster has seen of apply.                                 *)
(***************************************************************************)
YamlNames == FormNames \cup {<<"A", " ", "b">>}

toLowerCase(char) == IF char = "A" THEN "a" ELSE char

\* .replace(/-+/g, '-')
RECURSIVE collapseDashes(_)
collapseDashes(name) ==
    IF Len(name) < 2 THEN name
    ELSE IF name[1] = "-" /\ name[2] = "-" THEN collapseDashes(Tail(name))
    ELSE <<name[1]>> \o collapseDashes(Tail(name))

\* .replace(/^-+|-+$/g, '')
RECURSIVE stripDashes(_)
stripDashes(name) ==
    IF name # <<>> /\ Head(name) = "-" THEN stripDashes(Tail(name))
    ELSE IF name # <<>> /\ name[Len(name)] = "-"
    THEN stripDashes(SubSeq(name, 1, Len(name) - 1))
    ELSE name

\* toKubernetesName; isValid is the answer of Namespace.isValidNamespaceFormat.
toKubernetesName(name, isValid) ==
    LET dashed == [i \in 1..Len(name) |->
                      IF toLowerCase(name[i]) \in {"a", "b", "-"}
                      THEN toLowerCase(name[i]) ELSE "-"]
        stripped == stripDashes(collapseDashes(dashed))
        converted == SubSeq(stripped, 1, IF Len(stripped) < 63 THEN Len(stripped) ELSE 63)
    IN  IF isValid THEN converted ELSE <<>>

\* An uploaded document: kind, metadata.name, metadata.namespace and the
\* label app.kubernetes.io/name.
yamlItem(kind, name) ==
    [kind |-> kind, name |-> name, namespace |-> <<>>, appName |-> <<>>]

\* The uploads: the documents of the files, in their order.
YamlItemLists ==
    { <<>>,
      <<yamlItem("Deployment", <<"w">>)>>,
      <<yamlItem("Deployment", <<"w">>), yamlItem("Service", <<"s">>)>>,
      <<yamlItem("Service", <<"s">>), yamlItem("Deployment", <<"w">>)>>,
      <<yamlItem("Deployment", <<"w">>), yamlItem("Deployment", <<"w">>)>>,
      <<yamlItem("Service", <<"s">>), yamlItem("Deployment", <<"w">>),
        yamlItem("ConfigMap", <<"c">>)>> }

\* The answer of apiDiscovery for the cluster.
DiscoveredApiResources ==
    << [kind |-> "Pod"], [kind |-> "Service"], [kind |-> "Deployment"] >>

\* The Namespace object createProjectFromYaml applies first.
namespaceObject(k8sName) ==
    [kind |-> "Namespace", name |-> k8sName, namespace |-> <<>>, appName |-> <<>>]

\* itemsToCreate with the uploads in reverse order.
itemsToCreate_reversed(items, k8sName, organizeBy) ==
    [i \in 1..Len(items) |->
        IF organizeBy = "namespace"
        THEN [items[Len(items) + 1 - i] EXCEPT !.namespace = <<k8sName>>]
        ELSE [items[Len(items) + 1 - i] EXCEPT !.appName = <<k8sName>>]]

\* itemsToCreate: the clone of the items with the namespace or the label set.
itemsToCreate(items, k8sName, organizeBy) ==
    [i \in 1..Len(items) |->
        IF organizeBy = "namespace"
        THEN [items[i] EXCEPT !.namespace = <<k8sName>>]
        ELSE [items[i] EXCEPT !.appName = <<k8sName>>]]

\* The updater of the loop that forgets the resource just applied.
createdAfter_withoutCurrent(creationState) ==
    IF creationState.stage = "creating" THEN creationState.createdResources ELSE <<>>

\* The updater of the loop: createdResources of the next `creating' state.
createdAfter(creationState) ==
    IF creationState.stage = "creating"
    THEN creationState.createdResources \o creationState.creatingResource
    ELSE <<>>

\* apiResources.filter(it => usedKinds.has(it.kind))
RECURSIVE filterUsedKinds(_, _)
filterUsedKinds(apiResources, usedKinds) ==
    IF apiResources = <<>> THEN <<>>
    ELSE (IF Head(apiResources).kind \in usedKinds THEN <<Head(apiResources)>> ELSE <<>>)
             \o filterUsedKinds(Tail(apiResources), usedKinds)

\* The project createProjectFromYaml returns.
yamlProject(name, created, k8sName, cluster, apiResources, organizeBy, id, now) ==
    [id |-> id, name |-> name, description |-> undefined,
     apiResources |-> << filterUsedKinds(apiResources,
                                         {created[i].kind : i \in 1..Len(created)}) >>,
     createdAt |-> <<now>>, updatedAt |-> <<now>>,
     clusterSelectors |-> <<[operator |-> "Equals", value |-> cluster]>>,
     labelSelectors |->
         IF organizeBy = "label"
         THEN [k \in {"app.kubernetes.io/name"} |-> [operator |-> "Equals", value |-> k8sName]]
         ELSE NoLabels,
     namespaceSelectors |->
         IF organizeBy = "namespace" THEN <<[operator |-> "Equals", value |-> k8sName]>>
         ELSE <<>>]

\* handleCreate, the validation: the keys of errors.
yamlErrors(y) ==
    (IF trim(y.name) = <<>> THEN {"name"} ELSE {})
        \cup (IF y.selectedClusters = <<>> THEN {"clusters"} ELSE {})
        \cup (IF y.apiResources = <<>> THEN {"apiResources"} ELSE {})
        \cup (IF Len(y.items) = 0 THEN {"items"} ELSE {})

\* The component as it mounts: the form, nothing applied.
NoYaml ==
    [stage |-> "form", createdResources |-> <<>>, creatingResource |-> <<>>,
     projectId |-> undefined, error |-> <<>>,
     name |-> <<>>, k8sName |-> <<>>, selectedClusters |-> <<>>, apiResources |-> <<>>,
     items |-> <<>>, organizeBy |-> "namespace", errors |-> {},
     toCreate |-> <<>>, next |-> 0, applyCalls |-> <<>>, applyResolved |-> <<>>]

(***************************************************************************)
(* useLabelSuggestions: the label selectors suggested from the workloads.  *)
(* A resource is its metadata.labels, which may be missing.                *)
(***************************************************************************)
APP_LABEL_KEYS ==
    << "app.kubernetes.io/name", "app.kubernetes.io/instance",
       "app.kubernetes.io/component", "app.kubernetes.io/part-of",
       "app", "k8s-app", "helm.sh/chart", "name" >>

\* The label values of the tests, in ascending order; '' is below them all.
SuggestionValues == <<"cart", "monitor", "shop">>

\* The place of a value in the order of strings.
rank(value) ==
    IF \E i \in 1..Len(SuggestionValues) : SuggestionValues[i] = value
    THEN CHOOSE i \in 1..Len(SuggestionValues) : SuggestionValues[i] = value
    ELSE 0

oneLabel(key, value) ==
    [labels |-> << [k \in {key} |-> value] >>]

twoLabels(key1, value1, key2, value2) ==
    [labels |-> << [k \in {key1, key2} |-> IF k = key1 THEN value1 ELSE value2] >>]

LabelledResources ==
    { [labels |-> <<>>],
      oneLabel("app", "shop"), oneLabel("app", "cart"),
      oneLabel("app.kubernetes.io/name", "cart"), oneLabel("k8s-app", "monitor"),
      oneLabel("tier", "shop"),
      twoLabels("app.kubernetes.io/name", "", "app", "monitor"),
      twoLabels("app.kubernetes.io/instance", "shop", "name", "cart") }

\* items of a useList: undefined (<<>>) or a list (<<list>>).
UseListItems ==
    {<<>>, << <<>> >>}
        \cup {<< <<resource>> >> : resource \in LabelledResources}
        \cup { << <<oneLabel("app.kubernetes.io/name", "cart"), oneLabel("app", "shop")>> >>,
               << <<oneLabel("app", "shop"), oneLabel("k8s-app", "shop")>> >> }

\* items || []
itemsOrEmpty(items) ==
    IF items = <<>> THEN <<>> ELSE items[1]

\* resource.metadata.labels || {}
labelsOrEmpty(resource) ==
    IF resource.labels = <<>> THEN NoLabels ELSE resource.labels[1]

\* getAppName that takes the first key the labels hold, empty value or not.
RECURSIVE getAppName_firstPresent(_, _)
getAppName_firstPresent(resource, keys) ==
    IF keys = <<>> THEN <<>>
    ELSE IF Head(keys) \in DOMAIN labelsOrEmpty(resource)
    THEN << [appName |-> labelsOrEmpty(resource)[Head(keys)], labelKey |-> Head(keys),
             labelValue |-> labelsOrEmpty(resource)[Head(keys)]] >>
    ELSE getAppName_firstPresent(resource, Tail(keys))

\* getAppName: the loop over the keys (called with APP_LABEL_KEYS); null is
\* <<>>.  labels[key] is truthy when the key is there with a non-empty value.
RECURSIVE getAppName(_, _)
getAppName(resource, keys) ==
    IF keys = <<>> THEN <<>>
    ELSE IF Head(keys) \in DOMAIN labelsOrEmpty(resource)
            /\ labelsOrEmpty(resource)[Head(keys)] # ""
    THEN << [appName |-> labelsOrEmpty(resource)[Head(keys)], labelKey |-> Head(keys),
             labelValue |-> labelsOrEmpty(resource)[Head(keys)]] >>
    ELSE getAppName(resource, Tail(keys))

\* The loop that fills appMap: a Map keeps its keys in insertion order, and
\* an app name it has keeps its entry.
RECURSIVE fillAppMap(_, _)
fillAppMap(appMap, allResources) ==
    IF allResources = <<>> THEN appMap
    ELSE LET appInfo == getAppName(Head(allResources), APP_LABEL_KEYS)
         IN  IF appInfo # <<>>
                /\ ~\E i \in 1..Len(appMap) : appMap[i].appName = appInfo[1].appName
             THEN fillAppMap(Append(appMap, appInfo[1]), Tail(allResources))
             ELSE fillAppMap(appMap, Tail(allResources))

\* One step of a stable sort by value: the suggestion goes after the last
\* one that is not above it.
insertByValue(sorted, suggestion) ==
    LET before == {i \in 1..Len(sorted) :
                      rank(sorted[i].value) <= rank(suggestion.value)}
        n == Cardinality(before)
    IN  SubSeq(sorted, 1, n) \o <<suggestion>> \o SubSeq(sorted, n + 1, Len(sorted))

\* sortBy(suggestions, it => it.value)
RECURSIVE sortBy(_)
sortBy(suggestions) ==
    IF suggestions = <<>> THEN <<>>
    ELSE insertByValue(sortBy(SubSeq(suggestions, 1, Len(suggestions) - 1)),
                       suggestions[Len(suggestions)])

\* suggestedSelectors of useLabelSuggestions
suggestedSelectors(deployments, replicaSets, statefulSets, daemonSets) ==
    LET allResources == itemsOrEmpty(deployments) \o itemsOrEmpty(replicaSets)
                            \o itemsOrEmpty(statefulSets) \o itemsOrEmpty(daemonSets)
        appMap == fillAppMap(<<>>, allResources)
        suggestions == [i \in 1..Len(appMap) |->
                           [label |-> appMap[i].labelKey, value |-> appMap[i].labelValue]]
    IN  sortBy(suggestions)

(***************************************************************************)
(* The releaser: checkReleaseDetailed.  A string is the sequence of its    *)
(* pieces ('' is <<>>), a value that may be missing is <<>> or <<value>>.  *)
(***************************************************************************)
ReleaseVersions == {<<"0.33.0">>, <<>>}

\* tag_name.replace('v', ''): the first `v' goes.
RECURSIVE replaceFirstV(_)
replaceFirstV(tag_name) ==
    IF tag_name = <<>> THEN <<>>
    ELSE IF Head(tag_name) = "v" THEN Tail(tag_name)
    ELSE <<Head(tag_name)>> \o replaceFirstV(Tail(tag_name))

\* requiredAssets of a version
requiredAssets(version) ==
    << <<"Headlamp-">> \o version \o <<"-mac-x64.dmg">>,
       <<"Headlamp-">> \o version \o <<"-mac-arm64.dmg">>,
       <<"Headlamp-">> \o version \o <<"-linux-arm64.AppImage">>,
       <<"Headlamp-">> \o version \o <<"-linux-armv7l.AppImage">>,
       <<"Headlamp-">> \o version \o <<"-linux-x64.AppImage">>,
       <<"Headlamp-">> \o version \o <<"-linux-arm64.tar.gz">>,
       <<"Headlamp-">> \o version \o <<"-linux-armv7l.tar.gz">>,
       <<"Headlamp-">> \o version \o <<"-linux-x64.tar.gz">>,
       <<"Headlamp-">> \o version \o <<"-win-x64.exe">>,
       <<"headlamp_">> \o version \o <<"-1_amd64.deb">>,
       <<"checksums.txt">> >>

\* The assets a release may carry (names only); <<>> is a release without
\* an assets field.
ReleaseAssets ==
    { <<>>, << <<>> >>,
      << requiredAssets(<<"0.33.0">>) >>,
      << SubSeq(requiredAssets(<<"0.33.0">>), 1, 10) >>,
      << <<<<"notes.txt">>>> \o requiredAssets(<<"0.33.0">>) >>,
      << requiredAssets(<<"0.34.0">>) >>,
      << requiredAssets(<<>>) >>,
      << << <<"checksums.txt">>, <<"checksums.txt">>, <<"hasOwnProperty">> >> >> }

\* GitHubRelease: name may be null, tag_name is read with ?.
GitHubReleases ==
    [name : {<< <<"0.33.0">> >>, << <<>> >>, <<>>},
     tag_name : {<<>>, << <<"v", "0.33.0">> >>, << <<"v", "0.34.0">> >>, << <<"v">> >>},
     assets : ReleaseAssets]

OtherRelease ==
    [name |-> << <<"0.34.0">> >>, tag_name |-> << <<"v", "0.34.0">> >>,
     assets |-> << requiredAssets(<<"0.34.0">>) >>]

\* What octokit.repos.listReleases does: it answers with the releases, or
\* rejects with an Error or with something that is no Error.
ListReleasesOutcomes ==
    {[kind |-> "rejected", isError |-> TRUE, message |-> "Bad credentials", releases |-> <<>>],
     [kind |-> "rejected", isError |-> FALSE, message |-> "", releases |-> <<>>]}
        \cup {[kind |-> "resolved", isError |-> FALSE, message |-> "", releases |-> releases] :
                 releases \in {<<>>} \cup {<<release>> : release \in GitHubReleases}
                                 \cup {<<OtherRelease, release>> : release \in GitHubReleases}}

\* releases.find(release => release.name === version) || null
RECURSIVE findRelease(_, _)
findRelease(releases, version) ==
    IF releases = <<>> THEN <<>>
    ELSE IF Head(releases).name = <<version>> THEN <<Head(releases)>>
    ELSE findRelease(Tail(releases), version)

\* releaseDraft.tag_name?.replace('v', '') || releaseDraft.name; a falsy
\* version (undefined, null, '') is <<>>.
versionOf(releaseDraft) ==
    LET fromTag == IF releaseDraft.tag_name = <<>> THEN <<>>
                   ELSE replaceFirstV(releaseDraft.tag_name[1])
    IN  IF fromTag # <<>> THEN <<fromTag>>
        ELSE IF releaseDraft.name # <<>> /\ releaseDraft.name[1] # <<>>
        THEN releaseDraft.name
        ELSE <<>>

\* The forEach over the assets: a required name is marked found, any other
\* name is pushed to unknownAssets.
RECURSIVE markAssets(_, _, _)
markAssets(foundAssets, unknownAssets, assets) ==
    IF assets = <<>> THEN [foundAssets |-> foundAssets, unknownAssets |-> unknownAssets]
    ELSE IF Head(assets) \in DOMAIN foundAssets
    THEN markAssets([foundAssets EXCEPT ![Head(assets)] = TRUE], unknownAssets, Tail(assets))
    ELSE markAssets(foundAssets, Append(unknownAssets, Head(assets)), Tail(assets))

NoAssets == [name \in {} |-> FALSE]

\* The result checkReleaseDetailed starts from.
initialResult(releaseVersion) ==
    [version |-> releaseVersion, success |-> FALSE, releaseFound |-> FALSE,
     allArtifactsPresent |-> FALSE, foundAssets |-> NoAssets, unknownAssets |-> <<>>,
     error |-> <<>>]

\* allArtifactsPresent that asks for one found asset only.
everyFound_some(foundAssets) ==
    \E name \in DOMAIN foundAssets : foundAssets[name]

\* Object.values(foundAssets).every(found => found)
everyFound(foundAssets) ==
    \A name \in DOMAIN foundAssets : foundAssets[name]

\* checkReleaseDetailed.  hasToken is whether GITHUB_TOKEN is set: without
\* it getOctokit ends the process (process.exit(1)) and nothing is returned.
checkReleaseDetailed(releaseVersion, hasToken, listed) ==
    LET result == initialResult(releaseVersion)
        releaseDraft == findRelease(listed.releases, releaseVersion)
        version == versionOf(releaseDraft[1])
        required == requiredAssets(version[1])
        assets == IF releaseDraft[1].assets = <<>> THEN <<>> ELSE releaseDraft[1].assets[1]
        marked == markAssets([name \in {required[i] : i \in 1..Len(required)} |-> FALSE],
                             <<>>, assets)
    IN  IF ~hasToken
        THEN [outcome |-> "exited", result |-> result]
        ELSE IF listed.kind = "rejected"
        THEN [outcome |-> "resolved",
              result |-> [result EXCEPT !.error =
                             IF listed.isError THEN <<listed.message>>
                             ELSE <<"Unknown error">>]]
        ELSE IF releaseDraft = <<>>
        THEN [outcome |-> "resolved",
              result |-> [result EXCEPT !.error = <<"No release draft found for version">>]]
        ELSE IF version = <<>>
        THEN [outcome |-> "resolved",
              result |-> [result EXCEPT !.releaseFound = TRUE,
                                        !.error = <<"Release draft does not have a version">>]]
        ELSE [outcome |-> "resolved",
              result |-> [result EXCEPT !.releaseFound = TRUE,
                                        !.foundAssets = marked.foundAssets,
                                        !.unknownAssets = marked.unknownAssets,
                                        !.allArtifactsPresent = everyFound(marked.foundAssets),
                                        !.success = everyFound(marked.foundAssets)]]

(***************************************************************************)
(* State machine of the matcher.                                           *)
(***************************************************************************)
\* baseProject of the tests: a ProjectDefinition with no selector at all
EmptyProject ==
    [labelSelectors |-> NoLabels, namespaceSelectors |-> <<>>,
     clusterSelectors |-> <<>>, apiResources |-> <<>>]

NoCall == [fn |-> "none", resource |-> <<>>, resources |-> <<>>,
           key |-> "", selector |-> <<>>, result |-> FALSE, list |-> <<>>,
           text |-> "", counts |-> <<>>, icon |-> "", health |-> <<>>,
           raised |-> FALSE, lists |-> <<>>, suggestions |-> <<>>,
           healthText |-> "", version |-> <<>>, hasToken |-> TRUE, listed |-> <<>>, check |-> <<>>]

selectorCount(proj) ==
    Len(proj.apiResources) + Len(proj.clusterSelectors)
        + Len(proj.namespaceSelectors) + Cardinality(DOMAIN proj.labelSelectors)

\* The resources a list handed to getProjectResources is made of.
SampleResources ==
    { [kind |-> "Deployment", cluster |-> "cluster-a", hasMetadata |-> TRUE,
       namespace |-> "default", hasLabels |-> TRUE,
       labels |-> [k \in {"app"} |-> "shop"]],
      [kind |-> "Deployment", cluster |-> "cluster-b", hasMetadata |-> TRUE,
       namespace |-> "other", hasLabels |-> TRUE,
       labels |-> [k \in {"app"} |-> "cart"]],
      [kind |-> "Pod", cluster |-> "cluster-a", hasMetadata |-> TRUE,
       namespace |-> "default", hasLabels |-> TRUE,
       labels |-> [k \in {"app", "tier"} |-> IF k = "app" THEN "shop" ELSE "cart"]],
      [kind |-> "Pod", cluster |-> "cluster-b", hasMetadata |-> TRUE,
       namespace |-> undefined, hasLabels |-> FALSE, labels |-> NoLabels] }

ResourceLists == UNION {[1..n -> SampleResources] : n \in 0..MaxResources}

Init ==
    /\ project = EmptyProject
    /\ pc = "edit"
    /\ call = NoCall
    /\ state = initialState
    /\ localStorage = EmptyStorage
    /\ clock = 0
    /\ last = NoDispatch
    /\ route = ProjectsRoute
    /\ form = NoForm
    /\ details = [deleteDialogOpen |-> FALSE]
    /\ yaml = NoYaml

\* The inputs of the matcher: one more entry of project.apiResources, ...
AddApiResource ==
    /\ pc = "edit"
    /\ selectorCount(project) < MaxSelectors
    /\ \E api \in ApiResourceValues :
           project' = [project EXCEPT !.apiResources = Append(@, api)]
    /\ UNCHANGED <<pc, call, storeVars, uiVars>>

\* ... of project.clusterSelectors, ...
AddClusterSelector ==
    /\ pc = "edit"
    /\ selectorCount(project) < MaxSelectors
    /\ \E selector \in ClusterSelectorValues :
           project' = [project EXCEPT !.clusterSelectors = Append(@, selector)]
    /\ UNCHANGED <<pc, call, storeVars, uiVars>>

\* ... of project.namespaceSelectors, ...
AddNamespaceSelector ==
    /\ pc = "edit"
    /\ selectorCount(project) < MaxSelectors
    /\ \E selector \in NamespaceSelectorValues :
           project' = [project EXCEPT !.namespaceSelectors = Append(@, selector)]
    /\ UNCHANGED <<pc, call, storeVars, uiVars>>

\* ... or one more key of project.labelSelectors.
AddLabelSelector ==
    /\ pc = "edit"
    /\ selectorCount(project) < MaxSelectors
    /\ \E key \in LabelKeys \ DOMAIN project.labelSelectors,
          selector \in LabelSelectorValues :
           project' = [project EXCEPT !.labelSelectors =
                          [k \in DOMAIN @ \cup {key} |->
                              IF k = key THEN selector ELSE @[k]]]
    /\ UNCHANGED <<pc, call, storeVars, uiVars>>

\* matchesProject(resource, project) is called and returns.
CallMatchesProject ==
    /\ pc = "edit"
    /\ pc' = "called"
    /\ \E resource \in KubeObject :
           call' = [NoCall EXCEPT !.fn = "matchesProject", !.resource = resource,
                                  !.raised = matchesProjectRaises(resource, project),
                                  !.result = ~matchesProjectRaises(resource, project)
                                             /\ matchesProject(resource, project)]
    /\ UNCHANGED <<project, storeVars, uiVars>>

\* getProjectResources(project, resources) is called and returns.
CallGetProjectResources ==
    /\ pc = "edit"
    /\ pc' = "called"
    /\ \E resources \in ResourceLists :
           call' = [NoCall EXCEPT !.fn = "getProjectResources",
                                  !.resources = resources,
                                  !.list = getProjectResources(project, resources)]
    /\ UNCHANGED <<project, storeVars, uiVars>>

\* A call returns and ends the run: nothing is enabled once pc = "called".
MatchNext ==
    \/ AddApiResource
    \/ AddClusterSelector
    \/ AddNamespaceSelector
    \/ AddLabelSelector
    \/ CallMatchesProject
    \/ CallGetProjectResources

SpecMatch == Init /\ [][MatchNext]_vars

(***************************************************************************)
(* Calls of the functions that take no project: each is applied to one     *)
(* input of its domain.                                                    *)
(***************************************************************************)
\* matchesLabelSelector(resource, key, selector) is called and returns.
CallMatchesLabelSelector ==
    /\ pc = "edit"
    /\ pc' = "called"
    /\ \E resource \in KubeObject, key \in LabelKeys,
          selector \in LabelSelectorValues :
           call' = [NoCall EXCEPT
                       !.fn = "matchesLabelSelector", !.resource = resource,
                       !.key = key, !.selector = selector,
                       !.raised = matchesLabelSelectorRaises(resource, key, selector),
                       !.result = ~matchesLabelSelectorRaises(resource, key, selector)
                                  /\ matchesLabelSelector(resource, key, selector)]
    /\ UNCHANGED <<project, storeVars, uiVars>>

\* The table applies the accessorFn of the health column to one row and
\* renders the Cell of the column for it.
CallHealthAccessorFn ==
    /\ pc = "edit"
    /\ pc' = "called"
    /\ \E resource \in Workload :
           call' = [NoCall EXCEPT !.fn = "healthAccessorFn", !.resource = resource,
                                  !.text = healthAccessorFn(resource),
                                  !.healthText = healthCellText(resource)]
    /\ UNCHANGED <<project, storeVars, uiVars>>

\* getHealthIcon(healthy, unhealthy, warning) is called and returns.
CallGetHealthIcon ==
    /\ pc = "edit"
    /\ pc' = "called"
    /\ \E healthy \in IconCounts, unhealthy \in IconCounts, warning \in IconCounts :
           call' = [NoCall EXCEPT !.fn = "getHealthIcon",
                                  !.counts = <<healthy, unhealthy, warning>>,
                                  !.icon = getHealthIcon(healthy, unhealthy, warning)]
    /\ UNCHANGED <<project, storeVars, uiVars>>

\* The health column of ProjectList renders one project: getResourcesHealth of
\* its resources, and the icon getHealthIcon gives for the three buckets.
CallGetResourcesHealth ==
    /\ pc = "edit"
    /\ pc' = "called"
    /\ \E resources \in WorkloadLists :
           call' = [NoCall EXCEPT !.fn = "getResourcesHealth",
                                  !.resources = resources,
                                  !.health = getResourcesHealth(resources),
                                  !.icon = projectHealthIcon(resources)]
    /\ UNCHANGED <<project, storeVars, uiVars>>

\* useLabelSuggestions computes suggestedSelectors from the four lists.
CallUseLabelSuggestions ==
    /\ pc = "edit"
    /\ pc' = "called"
    /\ \E deployments \in UseListItems, replicaSets \in UseListItems,
          statefulSets \in UseListItems, daemonSets \in UseListItems :
           call' = [NoCall EXCEPT
                      !.fn = "useLabelSuggestions",
                      !.lists = <<deployments, replicaSets, statefulSets, daemonSets>>,
                      !.suggestions = suggestedSelectors(deployments, replicaSets,
                                                         statefulSets, daemonSets)]
    /\ UNCHANGED <<project, storeVars, uiVars>>

\* checkRelease --json calls checkReleaseDetailed with a version.
CallCheckReleaseDetailed ==
    /\ pc = "edit"
    /\ pc' = "called"
    /\ \E releaseVersion \in ReleaseVersions, hasToken \in BOOLEAN,
          listed \in ListReleasesOutcomes :
           call' = [NoCall EXCEPT
                      !.fn = "checkReleaseDetailed",
                      !.version = releaseVersion,
                      !.hasToken = hasToken,
                      !.listed = <<listed>>,
                      !.check = <<checkReleaseDetailed(releaseVersion, hasToken, listed)>>]
    /\ UNCHANGED <<project, storeVars, uiVars>>

Next ==
    \/ CallMatchesLabelSelector
    \/ CallCheckReleaseDetailed
    \/ CallUseLabelSuggestions
    \/ CallHealthAccessorFn
    \/ CallGetHealthIcon
    \/ CallGetResourcesHealth

Spec == Init /\ [][Next]_vars

(***************************************************************************)
(* The reducers of the projects slice.  A dispatch takes one unit of time. *)
(***************************************************************************)
createOrUpdateProjectAction ==
    /\ clock < MaxClock
    /\ clock' = clock + 1
    /\ \E payload \in Payloads, id \in ProjectIds, writeFails \in BOOLEAN :
           LET newProject == projectOf(payload, id, clock + 1)
               projects == setKey(state.projects, newProject.id, newProject)
           IN  /\ state' = [state EXCEPT !.projects = projects]
               /\ localStorage' = saveProjectsToStorage(localStorage, projects, writeFails)
               /\ last' = [NoDispatch EXCEPT
                             !.type = "createOrUpdateProjectAction",
                             !.payload = payload, !.generated = newProject.id,
                             !.writeFailed = writeFails, !.before = state]
    /\ UNCHANGED <<matchVars, uiVars>>

deleteProject ==
    /\ clock < MaxClock
    /\ clock' = clock + 1
    /\ \E id \in ProjectIds, writeFails \in BOOLEAN :
           LET projects == deleteKey(state.projects, id)
           IN  /\ state' = [state EXCEPT !.projects = projects]
               /\ localStorage' = saveProjectsToStorage(localStorage, projects, writeFails)
               /\ last' = [NoDispatch EXCEPT !.type = "deleteProject", !.id = id,
                                             !.writeFailed = writeFails,
                                             !.before = state]
    /\ UNCHANGED <<matchVars, uiVars>>

importProjects ==
    /\ clock < MaxClock
    /\ clock' = clock + 1
    /\ \E list \in ImportLists, writeFails \in BOOLEAN :
           LET projects == forEachImport(state.projects, list)
           IN  /\ state' = [state EXCEPT !.projects = projects]
               /\ localStorage' = saveProjectsToStorage(localStorage, projects, writeFails)
               /\ last' = [NoDispatch EXCEPT !.type = "importProjects", !.list = list,
                                             !.writeFailed = writeFails,
                                             !.before = state]
    /\ UNCHANGED <<matchVars, uiVars>>

clearProjects ==
    /\ clock < MaxClock
    /\ clock' = clock + 1
    /\ \E writeFails \in BOOLEAN :
           /\ state' = [state EXCEPT !.projects = <<>>]
           /\ localStorage' = saveProjectsToStorage(localStorage, <<>>, writeFails)
           /\ last' = [NoDispatch EXCEPT !.type = "clearProjects",
                                         !.writeFailed = writeFails, !.before = state]
    /\ UNCHANGED <<matchVars, uiVars>>

\* state.customCreateProject[action.payload.id] = action.payload
setRegistry(registry, payload) ==
    [id \in DOMAIN registry \cup {payload.id} |->
        IF id = payload.id THEN payload ELSE registry[id]]

addCustomCreateProject ==
    /\ clock < MaxClock
    /\ clock' = clock + 1
    /\ \E payload \in RegistryPayloads :
           /\ state' = [state EXCEPT !.customCreateProject = setRegistry(@, payload)]
           /\ last' = [NoDispatch EXCEPT !.type = "addCustomCreateProject",
                                         !.id = payload.id, !.before = state]
    /\ UNCHANGED <<localStorage, matchVars, uiVars>>

addDetailsTab ==
    /\ clock < MaxClock
    /\ clock' = clock + 1
    /\ \E payload \in RegistryPayloads :
           /\ state' = [state EXCEPT !.detailsTabs = setRegistry(@, payload)]
           /\ last' = [NoDispatch EXCEPT !.type = "addDetailsTab",
                                         !.id = payload.id, !.before = state]
    /\ UNCHANGED <<localStorage, matchVars, uiVars>>

addOverviewSection ==
    /\ clock < MaxClock
    /\ clock' = clock + 1
    /\ \E payload \in RegistryPayloads :
           /\ state' = [state EXCEPT !.overviewSections = setRegistry(@, payload)]
           /\ last' = [NoDispatch EXCEPT !.type = "addOverviewSection",
                                         !.id = payload.id, !.before = state]
    /\ UNCHANGED <<localStorage, matchVars, uiVars>>

StoreNext ==
    \/ createOrUpdateProjectAction
    \/ deleteProject
    \/ importProjects
    \/ clearProjects
    \/ addCustomCreateProject
    \/ addDetailsTab
    \/ addOverviewSection

SpecStore == Init /\ [][StoreNext]_vars

(***************************************************************************)
(* ProjectForm: the pages that lead to it, its inputs and its submit.      *)
(***************************************************************************)
onForm == route.name \in {"projectCreate", "projectEdit"}

\* The list page opens the create form.
openCreateForm ==
    /\ route.name = "projects"
    /\ route' = [name |-> "projectCreate", projectId |-> undefined]
    /\ form' = NoForm
    /\ UNCHANGED <<matchVars, storeVars, details, yaml>>

\* handleEdit of the details page opens the form on the project shown; the
\* form starts from structuredClone(existingProject).
handleEdit ==
    /\ route.name = "projectDetails"
    /\ hasProjectWithId(state.projects, route.projectId)
    /\ route' = [name |-> "projectEdit", projectId |-> route.projectId]
    /\ form' = [NoForm EXCEPT !.project = findProject(state.projects, route.projectId)]
    /\ UNCHANGED <<matchVars, storeVars, details, yaml>>

\* The name field changes.
handleNameChange ==
    /\ onForm
    /\ \E name \in FormNames :
           form' = [form EXCEPT !.project.name = name]
    /\ UNCHANGED <<matchVars, storeVars, route, details, yaml>>

\* The namespaces Autocomplete changes.
handleNamespacesChange ==
    /\ onForm
    /\ \E newValue \in FormNamespaceValues :
           form' = [form EXCEPT !.project.namespaceSelectors =
                       [i \in 1..Len(newValue) |->
                           [value |-> newValue[i], operator |-> "Equals"]]]
    /\ UNCHANGED <<matchVars, storeVars, route, details, yaml>>

\* The button `Add Label Selector'.
addLabelSelector ==
    /\ onForm
    /\ form' = [form EXCEPT !.project.labelSelectors = withEmptySelector(@),
                             !.event = NoEvent]
    /\ UNCHANGED <<matchVars, storeVars, route, details, yaml>>

\* The button `Delete' of the row of a key.
removeLabelSelector ==
    /\ onForm
    /\ \E key \in DOMAIN form.project.labelSelectors :
           form' = [form EXCEPT
                      !.project.labelSelectors = withoutSelector(@, key),
                      !.event = [NoEvent EXCEPT !.handler = "removeLabelSelector",
                                                !.key = key,
                                                !.before = form.project.labelSelectors]]
    /\ UNCHANGED <<matchVars, storeVars, route, details, yaml>>

\* A field of the row of a key changes: the key, the operator or the value.
handleLabelSelectorChange ==
    /\ onForm
    /\ \E key \in DOMAIN form.project.labelSelectors,
          field \in {"key", "operator", "value"} :
           \E value \in (CASE field = "key" -> FormKeys
                            [] field = "operator" -> OPERATOR_OPTIONS
                            [] OTHER -> FormSelectorValues) :
               form' = [form EXCEPT
                          !.project.labelSelectors =
                              IF field = "key" THEN renameSelector(@, key, value)
                              ELSE changeSelector(@, key, field, value),
                          !.event = [handler |-> "handleLabelSelectorChange",
                                     key |-> key, field |-> field, value |-> value,
                                     before |-> form.project.labelSelectors]]
    /\ UNCHANGED <<matchVars, storeVars, route, details, yaml>>

\* handleSubmit: with errors it records them and returns; without, it
\* dispatches createOrUpdateProjectAction(projectData) and goes to the
\* details page of the project.
handleSubmit ==
    /\ onForm
    /\ IF newErrors(form.project) # {}
       THEN /\ form' = [form EXCEPT !.errors = newErrors(form.project)]
            /\ UNCHANGED <<storeVars, route>>
       ELSE /\ clock < MaxSubmits
            /\ clock' = clock + 1
            /\ \E generated \in ProjectIds, writeFails \in BOOLEAN :
                   LET id == IF hasProjectWithId(state.projects, route.projectId)
                             THEN findProject(state.projects, route.projectId).id
                             ELSE generated
                       payload == projectData(form.project, id, clock + 1)
                       newProject == projectOf(payload, id, clock + 1)
                       projects == setKey(state.projects, newProject.id, newProject)
                   IN  /\ state' = [state EXCEPT !.projects = projects]
                       /\ localStorage' =
                              saveProjectsToStorage(localStorage, projects, writeFails)
                       /\ last' = [NoDispatch EXCEPT
                                     !.type = "createOrUpdateProjectAction",
                                     !.payload = payload, !.generated = newProject.id,
                                     !.writeFailed = writeFails, !.before = state]
                       /\ route' = [name |-> "projectDetails", projectId |-> id]
            /\ form' = NoForm
    /\ UNCHANGED <<matchVars, details, yaml>>

handleCancel ==
    /\ onForm
    /\ route' = ProjectsRoute
    /\ form' = NoForm
    /\ UNCHANGED <<matchVars, storeVars, details, yaml>>

FormNext ==
    \/ openCreateForm
    \/ handleEdit
    \/ handleNameChange
    \/ handleNamespacesChange
    \/ addLabelSelector
    \/ handleSubmit
    \/ handleCancel

SpecForm == Init /\ [][FormNext]_vars

\* The label selector rows of the form.
LabelsNext ==
    \/ openCreateForm
    \/ addLabelSelector
    \/ removeLabelSelector
    \/ handleLabelSelectorChange

SpecLabels == Init /\ [][LabelsNext]_vars

(***************************************************************************)
(* ProjectDetails: the page of one project and its delete dialog.          *)
(***************************************************************************)
\* The page shows the project (and not `Project Not Found').
projectShown ==
    /\ route.name = "projectDetails"
    /\ hasProjectWithId(state.projects, route.projectId)

\* The dialog with its buttons shown whether it has been opened or not.
dialogShown_always ==
    projectShown

\* <Dialog open={deleteDialogOpen}>: its buttons exist while it is open.
dialogShown ==
    projectShown /\ details.deleteDialogOpen

\* A link of the list page opens the details page of a project of the store.
openDetails ==
    /\ route.name = "projects"
    /\ \E i \in 1..Len(state.projects) :
           route' = [name |-> "projectDetails", projectId |-> state.projects[i].value.id]
    /\ details' = [deleteDialogOpen |-> FALSE]
    /\ UNCHANGED <<matchVars, storeVars, form, yaml>>

\* The back link of the page.
backToProjects ==
    /\ route.name = "projectDetails"
    /\ ~details.deleteDialogOpen
    /\ route' = ProjectsRoute
    /\ details' = [deleteDialogOpen |-> FALSE]
    /\ UNCHANGED <<matchVars, storeVars, form, yaml>>

\* The Delete button of the page: setDeleteDialogOpen(true)
openDeleteDialog ==
    /\ projectShown
    /\ ~details.deleteDialogOpen
    /\ details' = [details EXCEPT !.deleteDialogOpen = TRUE]
    /\ UNCHANGED <<matchVars, storeVars, route, form, yaml>>

\* Cancel, or onClose of the dialog: setDeleteDialogOpen(false)
closeDeleteDialog ==
    /\ dialogShown
    /\ details' = [details EXCEPT !.deleteDialogOpen = FALSE]
    /\ UNCHANGED <<matchVars, storeVars, route, form, yaml>>

\* The Delete button of the dialog: handleDelete dispatches
\* deleteProject(projectId) and goes to the list page.
handleDelete ==
    /\ dialogShown
    /\ clock < MaxClock
    /\ clock' = clock + 1
    /\ \E writeFails \in BOOLEAN :
           LET projects == deleteKey(state.projects, route.projectId)
           IN  /\ state' = [state EXCEPT !.projects = projects]
               /\ localStorage' = saveProjectsToStorage(localStorage, projects, writeFails)
               /\ last' = [NoDispatch EXCEPT !.type = "deleteProject",
                                             !.id = route.projectId,
                                             !.writeFailed = writeFails,
                                             !.before = state]
    /\ route' = ProjectsRoute
    /\ details' = [deleteDialogOpen |-> FALSE]
    /\ UNCHANGED <<matchVars, form, yaml>>

DetailsNext ==
    \/ importProjects
    \/ openDetails
    \/ backToProjects
    \/ openDeleteDialog
    \/ closeDeleteDialog
    \/ handleDelete

SpecDetails == Init /\ [][DetailsNext]_vars

(***************************************************************************)
(* The page `Create new Project from YAML'.  The form is rendered in stage *)
(* `form' only; apply answers when the cluster does.                       *)
(***************************************************************************)
onYamlForm == route.name = "projectCreateYaml" /\ yaml.stage = "form"

\* The popup of the list page opens the page; the component mounts.
openCreateYaml ==
    /\ route.name = "projects"
    /\ route' = [name |-> "projectCreateYaml", projectId |-> undefined]
    /\ yaml' = NoYaml
    /\ UNCHANGED <<matchVars, storeVars, form, details>>

\* The name field; k8sName is computed from it on the render.
setName ==
    /\ onYamlForm
    /\ \E name \in YamlNames, isValid \in BOOLEAN :
           yaml' = [yaml EXCEPT !.name = name,
                                !.k8sName = toKubernetesName(name, isValid)]
    /\ UNCHANGED <<matchVars, storeVars, route, form, details>>

\* The cluster Autocomplete; the query of the api resources starts again.
setSelectedClusters ==
    /\ onYamlForm
    /\ \E newValue \in {<<>>, <<"cluster-a">>} :
           yaml' = [yaml EXCEPT !.selectedClusters = newValue, !.apiResources = <<>>]
    /\ UNCHANGED <<matchVars, storeVars, route, form, details>>

\* apiDiscovery answers for the selected cluster.
apiDiscoveryResolves ==
    /\ onYamlForm
    /\ yaml.selectedClusters # <<>>
    /\ yaml.apiResources = <<>>
    /\ yaml' = [yaml EXCEPT !.apiResources = <<DiscoveredApiResources>>]
    /\ UNCHANGED <<matchVars, storeVars, route, form, details>>

setOrganizeBy ==
    /\ onYamlForm
    /\ \E value \in {"namespace", "label"} :
           yaml' = [yaml EXCEPT !.organizeBy = value]
    /\ UNCHANGED <<matchVars, storeVars, route, form, details>>

\* The files chosen have been read: setItems(newDocs).
setItems ==
    /\ onYamlForm
    /\ \E newDocs \in YamlItemLists :
           yaml' = [yaml EXCEPT !.items = newDocs]
    /\ UNCHANGED <<matchVars, storeVars, route, form, details>>

\* handleCreate: the validation, then createProjectFromYaml up to its first
\* await: the apply of the Namespace, or of the first item.
handleCreate ==
    /\ onYamlForm
    /\ IF yamlErrors(yaml) # {}
       THEN yaml' = [yaml EXCEPT !.errors = yamlErrors(yaml)]
       ELSE LET toCreate == itemsToCreate(yaml.items, yaml.k8sName, yaml.organizeBy)
                first == IF yaml.organizeBy = "namespace"
                         THEN namespaceObject(yaml.k8sName)
                         ELSE toCreate[1]
            IN  yaml' = [yaml EXCEPT
                           !.errors = {},
                           !.stage = "creating",
                           !.createdResources =
                               IF yaml.organizeBy = "namespace" THEN <<>>
                               ELSE createdAfter(yaml),
                           !.creatingResource = <<first>>,
                           !.toCreate = toCreate,
                           !.next = IF yaml.organizeBy = "namespace" THEN 0 ELSE 1,
                           !.applyCalls = <<first>>]
    /\ UNCHANGED <<matchVars, storeVars, route, form, details>>

\* The apply awaited resolves: the loop goes on to the next item, or, after
\* the last one, createProjectFromYaml returns the project and handleCreate
\* dispatches it and opens its page.
applyResolves ==
    /\ route.name = "projectCreateYaml"
    /\ yaml.stage = "creating"
    /\ IF yaml.next < Len(yaml.toCreate)
       THEN /\ yaml' = [yaml EXCEPT
                          !.createdResources = createdAfter(yaml),
                          !.creatingResource = <<yaml.toCreate[yaml.next + 1]>>,
                          !.next = yaml.next + 1,
                          !.applyCalls = Append(@, yaml.toCreate[yaml.next + 1]),
                          !.applyResolved = Append(@, yaml.creatingResource[1])]
            /\ UNCHANGED <<storeVars, route>>
       ELSE /\ clock < MaxClock
            /\ clock' = clock + 1
            /\ \E id \in ProjectIds, writeFails \in BOOLEAN :
                   LET payload == yamlProject(yaml.name, yaml.toCreate, yaml.k8sName,
                                              yaml.selectedClusters[1],
                                              yaml.apiResources[1], yaml.organizeBy,
                                              id, clock + 1)
                       newProject == projectOf(payload, id, clock + 1)
                       projects == setKey(state.projects, newProject.id, newProject)
                   IN  /\ yaml' = [yaml EXCEPT
                                     !.stage = "success",
                                     !.projectId = id,
                                     !.createdResources = <<>>,
                                     !.creatingResource = <<>>,
                                     !.applyResolved = Append(@, yaml.creatingResource[1])]
                       /\ state' = [state EXCEPT !.projects = projects]
                       /\ localStorage' =
                              saveProjectsToStorage(localStorage, projects, writeFails)
                       /\ last' = [NoDispatch EXCEPT
                                     !.type = "createOrUpdateProjectAction",
                                     !.payload = payload, !.generated = newProject.id,
                                     !.writeFailed = writeFails, !.before = state]
                       /\ route' = [name |-> "projectDetails", projectId |-> id]
    /\ UNCHANGED <<matchVars, form, details>>

\* The apply awaited rejects: the catch of handleCreate.
applyRejects ==
    /\ route.name = "projectCreateYaml"
    /\ yaml.stage = "creating"
    /\ yaml' = [yaml EXCEPT !.stage = "error", !.error = <<"ApiError">>,
                            !.createdResources = <<>>, !.creatingResource = <<>>]
    /\ UNCHANGED <<matchVars, storeVars, route, form, details>>

YamlNext ==
    \/ openCreateYaml
    \/ setName
    \/ setSelectedClusters
    \/ apiDiscoveryResolves
    \/ setOrganizeBy
    \/ setItems
    \/ handleCreate
    \/ applyResolves
    \/ applyRejects

SpecYaml == Init /\ [][YamlNext]_vars

(***************************************************************************)
(* The claims.                                                             *)
(***************************************************************************)
calledMatchesProject == pc = "called" /\ call.fn = "matchesProject"

\* The operator contract of spec.md 4.1: Equals(a,b) = a == b,
\* NotEquals(a,b) = a != b.
selectorHolds(selector, value) ==
    IF selector.operator = "Equals" THEN value = selector.value
    ELSE value # selector.value

\* C1: a project whose labelSelectors, namespaceSelectors, clusterSelectors and
\* apiResources are all empty matches no resource: matchesProject returns false.
C1_EmptyProjectMatchesNothing ==
    ( /\ calledMatchesProject
      /\ DOMAIN project.labelSelectors = {}
      /\ project.namespaceSelectors = <<>>
      /\ project.clusterSelectors = <<>>
      /\ project.apiResources = <<>> )
    => call.result = FALSE

C1_Witness ==
    /\ calledMatchesProject
    /\ project = EmptyProject
    /\ call.resource.hasLabels
    /\ DOMAIN call.resource.labels = LabelKeys
    /\ call.result = FALSE

\* C2: matchesProject is true exactly when at least one of the four selector
\* groups is non-empty and every non-empty group is satisfied by the resource
\* (a project with only clusterSelectors and/or apiResources included).
C2_MatchesIffNonEmptyGroupsHold ==
    calledMatchesProject =>
        LET r == call.resource
            someGroup ==
                \/ project.apiResources # <<>>
                \/ project.clusterSelectors # <<>>
                \/ project.namespaceSelectors # <<>>
                \/ DOMAIN project.labelSelectors # {}
            apiHolds ==
                project.apiResources # <<>> =>
                    \E i \in 1..Len(project.apiResources) :
                        project.apiResources[i].kind = r.kind
            clusterHolds ==
                project.clusterSelectors # <<>> =>
                    \E i \in 1..Len(project.clusterSelectors) :
                        selectorHolds(project.clusterSelectors[i], r.cluster)
            namespaceHolds ==
                project.namespaceSelectors # <<>> =>
                    \E i \in 1..Len(project.namespaceSelectors) :
                        selectorHolds(project.namespaceSelectors[i],
                                      metadataNamespace(r))
            labelsHold ==
                \A key \in DOMAIN project.labelSelectors :
                    matchesLabelSelector(r, key, project.labelSelectors[key])
        IN  call.result =
                (someGroup /\ apiHolds /\ clusterHolds /\ namespaceHolds /\ labelsHold)

\* C3: with apiResources non-empty, a resource whose kind is the kind of no entry
\* is not matched, whatever the other selectors say; with apiResources empty,
\* the kind of the resource does not change the result.
C3_ApiResourcesAllowList ==
    calledMatchesProject =>
        /\ ( /\ project.apiResources # <<>>
             /\ \A i \in 1..Len(project.apiResources) :
                    project.apiResources[i].kind # call.resource.kind )
           => call.result = FALSE
        /\ project.apiResources = <<>> =>
               \A kind \in Kinds :
                   matchesProject([call.resource EXCEPT !.kind = kind], project)
                       = call.result

C3_Witness ==
    /\ calledMatchesProject
    /\ project.apiResources # <<>>
    /\ \A i \in 1..Len(project.apiResources) :
           project.apiResources[i].kind # call.resource.kind
    /\ matchesProject(call.resource, [project EXCEPT !.apiResources = <<>>])
    /\ call.result = FALSE

\* C4: with clusterSelectors non-empty, the cluster check passes iff at least one
\* selector evaluates true against resource.cluster (Equals: the values are
\* equal, NotEquals: they differ); if none does, matchesProject returns false.
C4_ClusterSelectorOperators ==
    (calledMatchesProject /\ project.clusterSelectors # <<>>) =>
        LET anyHolds ==
                \E i \in 1..Len(project.clusterSelectors) :
                    selectorHolds(project.clusterSelectors[i], call.resource.cluster)
        IN  /\ matchesCluster(call.resource, project) <=> anyHolds
            /\ ~anyHolds => call.result = FALSE

\* C5: with namespaceSelectors non-empty, the namespace check passes iff at least
\* one selector evaluates true against resource.metadata.namespace (Equals: equal,
\* NotEquals: different; an absent namespace is compared as absent); if none
\* does, matchesProject returns false.
C5_NamespaceSelectorOperators ==
    (calledMatchesProject /\ project.namespaceSelectors # <<>>) =>
        LET namespace ==
                IF call.resource.hasMetadata THEN call.resource.namespace
                ELSE undefined
            anyHolds ==
                \E i \in 1..Len(project.namespaceSelectors) :
                    selectorHolds(project.namespaceSelectors[i], namespace)
        IN  /\ matchesNamespace(call.resource, project) <=> anyHolds
            /\ ~anyHolds => call.result = FALSE

\* C6: label selectors are AND-combined: with labelSelectors non-empty,
\* matchesProject is false as soon as matchesLabelSelector is false for one
\* declared (key, selector) pair, and the label check passes only if it is true
\* for every pair.
C6_LabelSelectorsAndCombined ==
    (calledMatchesProject /\ DOMAIN project.labelSelectors # {}) =>
        LET failing ==
                {key \in DOMAIN project.labelSelectors :
                    ~matchesLabelSelector(call.resource, key,
                                          project.labelSelectors[key])}
        IN  /\ failing # {} => call.result = FALSE
            /\ matchesLabels(call.resource, project) => failing = {}
            /\ call.result = TRUE => failing = {}

\* One of two declared selectors holds, the other fails, and the project with
\* the holding one alone matches the resource.
C6_Witness ==
    /\ calledMatchesProject
    /\ DOMAIN project.labelSelectors = LabelKeys
    /\ \E key \in LabelKeys :
           /\ matchesLabelSelector(call.resource, key, project.labelSelectors[key])
           /\ \A other \in LabelKeys \ {key} :
                  ~matchesLabelSelector(call.resource, other,
                                        project.labelSelectors[other])
           /\ matchesProject(call.resource,
                  [project EXCEPT !.labelSelectors =
                      [k \in {key} |-> project.labelSelectors[k]]])
    /\ call.result = FALSE

\* C7: when the resource has label k, matchesLabelSelector under Equals(v) is
\* true iff the label's value is v and under NotEquals(v) it is the negation of
\* that; when the resource has no label k, Equals(v) is false and NotEquals(v)
\* is true.
C7_EqualsAndNotEquals ==
    (pc = "called" /\ call.fn = "matchesLabelSelector") =>
        LET r == call.resource
            present == r.hasMetadata /\ r.hasLabels /\ call.key \in DOMAIN r.labels
            equal == present /\ r.labels[call.key] = call.selector.value
        IN  /\ call.selector.operator = "Equals" => call.result = equal
            /\ call.selector.operator = "NotEquals" => call.result = ~equal
            /\ (~present /\ call.selector.operator = "Equals")
                   => call.result = FALSE
            /\ (~present /\ call.selector.operator = "NotEquals")
                   => call.result = TRUE

C7_Witness ==
    /\ pc = "called"
    /\ call.fn = "matchesLabelSelector"
    /\ call.selector.operator = "NotEquals"
    /\ call.resource.hasLabels
    /\ call.key \notin DOMAIN call.resource.labels
    /\ DOMAIN call.resource.labels # {}
    /\ call.result = TRUE

C9_FilterOrderedIdempotent ==
    (pc = "called" /\ call.fn = "getProjectResources") =>
        LET accepts(r) == matchesProject(r, project)
        IN  /\ call.list = SelectSeq(call.resources, accepts)
            /\ \A i \in 1..Len(call.list) : accepts(call.list[i])
            /\ getProjectResources(project, call.list) = call.list

\* Two different resources are kept, in the order of the input.
C9_Witness ==
    /\ pc = "called"
    /\ call.fn = "getProjectResources"
    /\ Len(call.resources) = 2
    /\ call.resources[1] # call.resources[2]
    /\ call.list = call.resources

\* C10: a Deployment or StatefulSet is unhealthy when readyReplicas is 0,
\* otherwise warning when readyReplicas < replicas, otherwise healthy; a
\* DaemonSet the same with numberReady and desiredNumberScheduled; a missing
\* number is compared as 0.
C10_WorkloadHealth ==
    ( /\ pc = "called"
      /\ call.fn = "healthAccessorFn"
      /\ call.resource.kind \in {"Deployment", "StatefulSet", "DaemonSet"} )
    => LET r == call.resource
           ready == IF r.kind = "DaemonSet"
                    THEN orZero(statusCount(r, "numberReady"))
                    ELSE orZero(statusCount(r, "readyReplicas"))
           desired == IF r.kind = "DaemonSet"
                      THEN orZero(statusCount(r, "desiredNumberScheduled"))
                      ELSE orZero(specReplicas(r))
       IN  call.text = IF ready = 0 THEN "Unhealthy"
                       ELSE IF ready < desired THEN "Degraded"
                       ELSE "Healthy"

calledHealthAccessorFn == pc = "called" /\ call.fn = "healthAccessorFn"

\* The health state a text of the health column stands for.
healthOfText(text) ==
    CASE text \in {"Unhealthy", "Failed"} -> "unhealthy"
      [] text \in {"Degraded", "Pending"} -> "warning"
      [] text = "Healthy" -> "healthy"
      [] OTHER -> "none"

\* C11: a Pod is unhealthy when its phase is Failed or CrashLoopBackOff,
\* whatever its Ready condition; otherwise warning when its phase is Pending or
\* its Ready condition is missing or not "True"; otherwise healthy.
C11_PodHealth ==
    (calledHealthAccessorFn /\ call.resource.kind = "Pod") =>
        LET r == call.resource
            phase == IF r.hasStatus THEN r.phase ELSE undefined
            conditions == IF r.hasStatus /\ r.conditions # <<>>
                          THEN r.conditions[1] ELSE <<>>
            \* the Ready condition find() returns is the first of the list
            readyTrue ==
                \E i \in 1..Len(conditions) :
                    /\ conditions[i].type = "Ready"
                    /\ conditions[i].status = "True"
                    /\ \A j \in 1..(i - 1) : conditions[j].type # "Ready"
        IN  healthOfText(call.text) =
                IF phase \in {"Failed", "CrashLoopBackOff"} THEN "unhealthy"
                ELSE IF phase = "Pending" \/ ~readyTrue THEN "warning"
                ELSE "healthy"

\* A failed Pod whose Ready condition is "True".
C11_Witness ==
    /\ calledHealthAccessorFn
    /\ call.resource.kind = "Pod"
    /\ call.resource.phase = "Failed"
    /\ call.resource.conditions = <<(<<[type |-> "Ready", status |-> "True"]>>)>>
    /\ call.text = "Failed"

\* C12: the classification is total and first-match-wins: every resource gets
\* exactly one health state, an earlier rule that applies decides, and a
\* resource whose kind is not Deployment, StatefulSet, DaemonSet or Pod
\* (ReplicaSet included) is healthy whatever its status fields hold.
C12_TotalFirstMatchDefaultHealthy ==
    calledHealthAccessorFn =>
        LET r == call.resource
        IN  /\ healthOfText(call.text) \in {"healthy", "warning", "unhealthy"}
            /\ r.kind \notin {"Deployment", "StatefulSet", "DaemonSet", "Pod"}
                   => call.text = "Healthy"
            \* the unhealthy rule comes first: it decides where the warning rule
            \* applies too
            /\ ( /\ r.kind \in {"Deployment", "StatefulSet"}
                 /\ r.hasStatus /\ r.readyReplicas = <<0>>
                 /\ orZero(specReplicas(r)) > 0 ) => call.text = "Unhealthy"
            /\ ( /\ r.kind = "DaemonSet"
                 /\ r.hasStatus /\ r.numberReady = <<0>>
                 /\ orZero(r.desiredNumberScheduled) > 0 ) => call.text = "Unhealthy"
            /\ ( /\ r.kind = "Pod"
                 /\ r.hasStatus /\ r.phase \in {"Failed", "CrashLoopBackOff"} )
                   => call.text = "Failed"

\* A ReplicaSet with no replica ready out of two.
C12_Witness ==
    /\ calledHealthAccessorFn
    /\ call.resource.kind = "ReplicaSet"
    /\ call.resource.readyReplicas = <<0>>
    /\ call.resource.replicas = <<2>>
    /\ call.text = "Healthy"


calledGetResourcesHealth == pc = "called" /\ call.fn = "getResourcesHealth"

\* The number of resources of the call that getStatus puts into a bucket.
classifiedInto(status) ==
    Cardinality({i \in 1..Len(call.resources) : getStatus(call.resources[i]) = status})

\* C13: getResourcesHealth is a count-by of the classification: the value of
\* each of the buckets success, warning and error is the number of input
\* resources classified into it, and success + warning + error equals
\* resources.length, for every input list.
\* Violated: a bucket no resource falls into is missing from the result.
C13_CountByBuckets ==
    calledGetResourcesHealth =>
        /\ \A status \in KubeObjectStatus :
               bucket(call.health, status) = <<classifiedInto(status)>>
        /\ \A status \in KubeObjectStatus : bucket(call.health, status) # <<>>
        /\ orZero(bucket(call.health, "success")) + orZero(bucket(call.health, "warning"))
               + orZero(bucket(call.health, "error")) = Len(call.resources)

\* What the count-by of the code does guarantee: a bucket that is present
\* holds the number of resources classified into it, a missing bucket stands
\* for no resource, and the present buckets add up to resources.length.
PresentBucketsCount ==
    calledGetResourcesHealth =>
        /\ \A status \in KubeObjectStatus :
               IF status \in DOMAIN call.health
               THEN call.health[status] = classifiedInto(status) /\ call.health[status] > 0
               ELSE classifiedInto(status) = 0
        /\ orZero(bucket(call.health, "success")) + orZero(bucket(call.health, "warning"))
               + orZero(bucket(call.health, "error")) = Len(call.resources)

\* C14: for the empty resource list getResourcesHealth returns success = 0,
\* warning = 0 and error = 0, every bucket present, so that the icon of a
\* project without resources is the unknown marker "mdi:help-circle".
\* Violated: the result is the empty object and the icon is "mdi:check-circle".
C14_EmptyListAllZeroUnknown ==
    (calledGetResourcesHealth /\ call.resources = <<>>) =>
        /\ \A status \in KubeObjectStatus : bucket(call.health, status) = <<0>>
        /\ call.icon = "mdi:help-circle"

calledGetHealthIcon == pc = "called" /\ call.fn = "getHealthIcon"

\* C15: getHealthIcon(healthy, unhealthy, warning), called with numbers, has a
\* strict priority: the unknown marker when the three counts sum to 0;
\* otherwise the error marker when unhealthy > 0; otherwise the warning marker
\* when warning > 0; otherwise the ok marker.
C15_HealthIconPriority ==
    (calledGetHealthIcon /\ \A i \in 1..3 : call.counts[i] # <<>>) =>
        LET healthy == call.counts[1][1]
            unhealthy == call.counts[2][1]
            warning == call.counts[3][1]
        IN  call.icon =
                IF healthy + unhealthy + warning = 0 THEN "mdi:help-circle"
                ELSE IF unhealthy > 0 THEN "mdi:alert-circle"
                ELSE IF warning > 0 THEN "mdi:alert"
                ELSE "mdi:check-circle"

\* C15 witness: all three counts are positive and the error marker is returned.
C15_Witness ==
    /\ calledGetHealthIcon
    /\ call.counts = << <<1>>, <<1>>, <<1>> >>
    /\ call.icon = "mdi:alert-circle"

calledMatchesLabelSelector == pc = "called" /\ call.fn = "matchesLabelSelector"

\* The resource with a metadata object that holds an empty labels mapping,
\* for a resource that lacks the one or the other.
withEmptyLabels(resource) ==
    [resource EXCEPT !.hasMetadata = TRUE, !.hasLabels = TRUE]

\* C16: matchesProject and matchesLabelSelector never raise for a resource
\* that lacks labels: a missing labels mapping, or a resource without
\* metadata, is treated as an empty mapping, a resource without a namespace
\* as having an absent namespace, and the function returns a boolean.
\* Stated of a call of matchesProject and of matchesLabelSelector applied to
\* the resource of the call and each label selector of the project.
C16_MatchersNeverRaise ==
    calledMatchesProject =>
        /\ ~call.raised
        /\ call.result \in BOOLEAN
        /\ call.result = matchesProject(withEmptyLabels(call.resource), project)
        /\ \A key \in DOMAIN project.labelSelectors :
               LET selector == project.labelSelectors[key]
               IN  /\ ~matchesLabelSelectorRaises(call.resource, key, selector)
                   /\ matchesLabelSelector(call.resource, key, selector) \in BOOLEAN
                   /\ matchesLabelSelector(call.resource, key, selector)
                          = matchesLabelSelector(withEmptyLabels(call.resource),
                                                 key, selector)

\* The same of a direct call of matchesLabelSelector, with any key and selector.
MatchesLabelSelectorNeverRaises ==
    calledMatchesLabelSelector =>
        /\ ~call.raised
        /\ call.result \in BOOLEAN
        /\ call.result = matchesLabelSelector(withEmptyLabels(call.resource),
                                              call.key, call.selector)

\* C16 witness: matchesProject has reached the label check of a project with
\* a NotEquals selector for a resource without metadata, and returned true.
C16_Witness ==
    /\ calledMatchesProject
    /\ ~call.resource.hasMetadata
    /\ \E key \in DOMAIN project.labelSelectors :
           project.labelSelectors[key].operator = "NotEquals"
    /\ ~call.raised
    /\ call.result = TRUE

SavingActions ==
    {"createOrUpdateProjectAction", "deleteProject", "importProjects", "clearProjects"}

\* C17: after each createOrUpdateProjectAction, deleteProject, importProjects
\* or clearProjects, and so after any sequence of them, the item of
\* localStorage under 'headlamp-projects' is the serialization of the
\* resulting state.projects, provided the write did not fail.
C17_ProjectsSaved ==
    (last.type \in SavingActions /\ ~last.writeFailed) =>
        /\ PROJECTS_STORAGE_KEY \in DOMAIN localStorage
        /\ localStorage[PROJECTS_STORAGE_KEY] = JSON_stringify(state.projects)

\* C17 witness: a deleteProject has left one project, which has no
\* description, and the item holds its serialization, without the property.
C17_Witness ==
    /\ last.type = "deleteProject"
    /\ ~last.writeFailed
    /\ Len(last.before.projects) = 2
    /\ Len(state.projects) = 1
    /\ PROJECTS_STORAGE_KEY \in DOMAIN localStorage
    /\ Len(localStorage[PROJECTS_STORAGE_KEY]) = 1
    /\ "description" \notin DOMAIN localStorage[PROJECTS_STORAGE_KEY][1].value

\* C18: createOrUpdateProjectAction with a payload without id, the generated
\* id being fresh, on a store of n projects yields n + 1 projects: one new
\* entry under the generated id, whose name, description, labelSelectors,
\* namespaceSelectors and clusterSelectors are the payload's, createdAt the
\* payload's when given, apiResources defaultApiResources when absent; the
\* entries there were are unchanged.
C18_CreateAddsOneProject ==
    (/\ last.type = "createOrUpdateProjectAction"
     /\ last.payload.id = undefined
     /\ ~hasKey(last.before.projects, last.generated)) =>
        LET n == Len(last.before.projects)
            created == valueOf(state.projects, last.generated)
        IN  /\ Len(state.projects) = n + 1
            /\ keysOf(state.projects) = keysOf(last.before.projects) \cup {last.generated}
            /\ Cardinality(keysOf(state.projects)) = n + 1
            /\ created.id = last.generated
            /\ created.name = last.payload.name
            /\ created.description = last.payload.description
            /\ created.labelSelectors = last.payload.labelSelectors
            /\ created.namespaceSelectors = last.payload.namespaceSelectors
            /\ created.clusterSelectors = last.payload.clusterSelectors
            /\ (last.payload.createdAt # <<>> =>
                    created.createdAt = last.payload.createdAt[1])
            /\ (last.payload.apiResources = <<>> =>
                    created.apiResources = defaultApiResources)
            /\ \A key \in keysOf(last.before.projects) :
                   valueOf(state.projects, key) = valueOf(last.before.projects, key)

\* C18 witness: a payload without id and without apiResources, with a
\* createdAt, has been stored under a fresh id next to a project.
C18_Witness ==
    /\ last.type = "createOrUpdateProjectAction"
    /\ last.payload.id = undefined
    /\ last.payload.createdAt = <<0>>
    /\ last.payload.apiResources = <<>>
    /\ Len(last.before.projects) = 1
    /\ ~hasKey(last.before.projects, last.generated)
    /\ Len(state.projects) = 2
    /\ clock = 2

\* C19: deleteProject(id) removes the entry with that id and no other from
\* state.projects, and leaves every other project and the customCreateProject,
\* detailsTabs and overviewSections registries unchanged; when no project has
\* the id, state.projects is unchanged.
C19_DeleteRemovesOneProject ==
    last.type = "deleteProject" =>
        /\ ~hasKey(state.projects, last.id)
        /\ keysOf(state.projects) = keysOf(last.before.projects) \ {last.id}
        /\ Len(state.projects) = Cardinality(keysOf(state.projects))
        /\ \A key \in keysOf(state.projects) :
               valueOf(state.projects, key) = valueOf(last.before.projects, key)
        /\ state.customCreateProject = last.before.customCreateProject
        /\ state.detailsTabs = last.before.detailsTabs
        /\ state.overviewSections = last.before.overviewSections
        /\ (~hasKey(last.before.projects, last.id) =>
                state.projects = last.before.projects)

\* C19 witness: the first of two projects has been deleted, the second is
\* left, and a details tab is registered.
C19_Witness ==
    /\ last.type = "deleteProject"
    /\ Len(last.before.projects) = 2
    /\ last.before.projects[1].key = last.id
    /\ Len(state.projects) = 1
    /\ state.detailsTabs # NoRegistry

\* The last entry of the imported list with the id.
lastImported(list, id) ==
    list[CHOOSE i \in 1..Len(list) :
            /\ list[i].id = id
            /\ \A j \in (i + 1)..Len(list) : list[j].id # id]

\* C20: importProjects(list) upserts by id: afterwards state.projects holds
\* every imported project under its id, for two entries of the list with the
\* same id the later one, and every project stored before whose id is not in
\* the list is unchanged.
C20_ImportUpserts ==
    last.type = "importProjects" =>
        LET ids == {last.list[i].id : i \in 1..Len(last.list)}
        IN  /\ \A id \in ids :
                   /\ hasKey(state.projects, id)
                   /\ valueOf(state.projects, id) = lastImported(last.list, id)
            /\ \A key \in keysOf(last.before.projects) \ ids :
                   /\ hasKey(state.projects, key)
                   /\ valueOf(state.projects, key) = valueOf(last.before.projects, key)
            /\ keysOf(state.projects) = keysOf(last.before.projects) \cup ids

\* C20 witness: a list with two entries of one id has been imported over a
\* stored project of that id and one of another id; the later entry is held.
C20_Witness ==
    /\ last.type = "importProjects"
    /\ Len(last.list) = 2
    /\ last.list[1].id = last.list[2].id
    /\ last.list[1] # last.list[2]
    /\ hasKey(last.before.projects, last.list[1].id)
    /\ keysOf(last.before.projects) # {last.list[1].id}
    /\ valueOf(state.projects, last.list[2].id) = last.list[2]


\* The required fields of a form project that fail: the name when it holds
\* nothing but blanks, labelSelectors when there is neither a label selector
\* nor a namespace selector.
failingFields(formProject) ==
    (IF \A i \in 1..Len(formProject.name) : formProject.name[i] = " "
     THEN {"name"} ELSE {})
        \cup (IF DOMAIN formProject.labelSelectors = {}
                 /\ formProject.namespaceSelectors = <<>>
              THEN {"labelSelectors"} ELSE {})

\* C21: ProjectForm validates the required fields on submit: when the name is
\* blank after trimming, or labelSelectors and namespaceSelectors are both
\* empty, nothing is dispatched, state.projects is unchanged, there is no
\* navigation and an error is recorded for each failing field; a project is
\* dispatched only when both checks pass.
C21_SubmitValidates ==
    [][handleSubmit =>
          LET failing == failingFields(form.project)
          IN  /\ failing # {} =>
                     /\ clock' = clock
                     /\ last' = last
                     /\ state' = state
                     /\ localStorage' = localStorage
                     /\ route' = route
                     /\ form'.errors = failing
              /\ (clock' # clock \/ last' # last \/ state' # state) =>
                     /\ failing = {}
                     /\ last'.type = "createOrUpdateProjectAction"
                     /\ last'.payload.name = form.project.name
                     /\ route'.name = "projectDetails"
      ]_vars

\* C21 witness: a submit of a create form whose name is one blank and which
\* has no selector has recorded both errors; the form is still shown and the
\* store is empty.
C21_Witness ==
    /\ route.name = "projectCreate"
    /\ form.project.name = <<" ">>
    /\ form.errors = {"name", "labelSelectors"}
    /\ state.projects = <<>>
    /\ clock = 0


\* C22: deleting a project from the details page is guarded by the dialog:
\* deleteProject is dispatched only by the Delete button of the dialog, the
\* dialog is opened only by the Delete button of the page, and Cancel or
\* closing the dialog leaves state.projects unchanged.
C22_DeleteGuardedByDialog ==
    [][/\ (last'.type = "deleteProject" /\ clock' # clock) =>
              /\ details.deleteDialogOpen
              /\ route.name = "projectDetails"
              /\ last'.id = route.projectId
       /\ (~details.deleteDialogOpen /\ details'.deleteDialogOpen) =>
              /\ route.name = "projectDetails"
              /\ route' = route
              /\ state' = state
       /\ (details.deleteDialogOpen /\ ~details'.deleteDialogOpen /\ clock' = clock) =>
              /\ state'.projects = state.projects
              /\ last' = last
      ]_vars

\* C22 witness: the dialog's Delete button has deleted the project of the
\* page, one of two, and the list page is shown.
C22_Witness ==
    /\ last.type = "deleteProject"
    /\ Len(last.before.projects) = 2
    /\ Len(state.projects) = 1
    /\ route = ProjectsRoute
    /\ ~details.deleteDialogOpen


calledUseLabelSuggestions == pc = "called" /\ call.fn = "useLabelSuggestions"

\* The application name of a resource: the value of its first non-empty
\* label in the priority order of APP_LABEL_KEYS; "" when it has none.
appNameOf(resource) ==
    LET labels == IF resource.labels = <<>> THEN NoLabels ELSE resource.labels[1]
        named == {i \in 1..Len(APP_LABEL_KEYS) :
                     /\ APP_LABEL_KEYS[i] \in DOMAIN labels
                     /\ labels[APP_LABEL_KEYS[i]] # ""}
    IN  IF named = {} THEN ""
        ELSE labels[APP_LABEL_KEYS[CHOOSE i \in named : \A j \in named : i <= j]]

\* The key of that label.
appKeyOf(resource) ==
    LET labels == IF resource.labels = <<>> THEN NoLabels ELSE resource.labels[1]
        named == {i \in 1..Len(APP_LABEL_KEYS) :
                     /\ APP_LABEL_KEYS[i] \in DOMAIN labels
                     /\ labels[APP_LABEL_KEYS[i]] # ""}
    IN  APP_LABEL_KEYS[CHOOSE i \in named : \A j \in named : i <= j]

\* C23: useLabelSuggestions returns one suggestion per distinct application
\* name found over the deployments, replica sets, stateful sets and daemon
\* sets, in that order: the name of a resource is the value of its first
\* non-empty label in APP_LABEL_KEYS order, the label key kept for a name is
\* that of the first resource seen with it, a resource without such a label
\* contributes nothing, and the result is sorted ascending by value with no
\* two suggestions sharing a value.
C23_LabelSuggestions ==
    calledUseLabelSuggestions =>
        LET seen == (IF call.lists[1] = <<>> THEN <<>> ELSE call.lists[1][1])
                        \o (IF call.lists[2] = <<>> THEN <<>> ELSE call.lists[2][1])
                        \o (IF call.lists[3] = <<>> THEN <<>> ELSE call.lists[3][1])
                        \o (IF call.lists[4] = <<>> THEN <<>> ELSE call.lists[4][1])
            names == {appNameOf(seen[i]) : i \in 1..Len(seen)} \ {""}
            result == call.suggestions
        IN  /\ {result[i].value : i \in 1..Len(result)} = names
            /\ Len(result) = Cardinality(names)
            /\ \A i \in 1..Len(result) : \A j \in (i + 1)..Len(result) :
                   rank(result[i].value) < rank(result[j].value)
            /\ \A i \in 1..Len(result) :
                   LET first == CHOOSE k \in 1..Len(seen) :
                                    /\ appNameOf(seen[k]) = result[i].value
                                    /\ \A m \in 1..(k - 1) :
                                           appNameOf(seen[m]) # result[i].value
                   IN  result[i].label = appKeyOf(seen[first])

\* C23 witness: a deployment named shop, a replica set and a later daemon set
\* that share the name cart under different keys, and a stateful set whose
\* first label is empty; the suggestions are cart (under the key of the
\* replica set), monitor, shop.
C23_Witness ==
    /\ calledUseLabelSuggestions
    /\ call.lists = << << <<oneLabel("app", "shop")>> >>,
                       << <<oneLabel("app.kubernetes.io/name", "cart")>> >>,
                       << <<twoLabels("app.kubernetes.io/name", "", "app", "monitor")>> >>,
                       << <<oneLabel("app", "cart")>> >> >>
    /\ call.suggestions = << [label |-> "app.kubernetes.io/name", value |-> "cart"],
                             [label |-> "app", value |-> "monitor"],
                             [label |-> "app", value |-> "shop"] >>


calledCheckReleaseDetailed == pc = "called" /\ call.fn = "checkReleaseDetailed"

\* The releases of the lookup that are named as the version asked for.
namedReleases ==
    IF call.listed[1].kind = "rejected" THEN {}
    ELSE {i \in 1..Len(call.listed[1].releases) :
             call.listed[1].releases[i].name = <<call.version>>}

\* The release of the check: the first of them.
checkedRelease ==
    call.listed[1].releases[CHOOSE i \in namedReleases : \A j \in namedReleases : i <= j]

\* The asset names of the release of the check.
checkedAssetNames ==
    IF checkedRelease.assets = <<>> THEN {}
    ELSE {checkedRelease.assets[1][i] : i \in 1..Len(checkedRelease.assets[1])}

\* The 11 names required for the version of the release of the check (the
\* tag without its `v', else the name).
checkedRequiredNames ==
    LET fromTag == IF checkedRelease.tag_name = <<>> THEN <<>>
                   ELSE replaceFirstV(checkedRelease.tag_name[1])
        version == IF fromTag # <<>> THEN fromTag
                   ELSE IF checkedRelease.name = <<>> THEN <<>>
                   ELSE checkedRelease.name[1]
    IN  {requiredAssets(version)[i] : i \in 1..11}

\* What the claim says of a call that returned `result'.
releaseCheckContract(result) ==
    /\ result.success = result.allArtifactsPresent
    /\ result.success <=>
           /\ namedReleases # {}
           /\ checkedRequiredNames \subseteq checkedAssetNames
    /\ namedReleases # {} =>
           /\ DOMAIN result.foundAssets = checkedRequiredNames
           /\ {result.unknownAssets[i] : i \in 1..Len(result.unknownAssets)}
                  = checkedAssetNames \ checkedRequiredNames
    /\ namedReleases = {} =>
           /\ ~result.releaseFound
           /\ ~result.success
           /\ result.error # <<>>

\* C24: checkReleaseDetailed(version) reports failures as values and never
\* throws: it returns a result in which success = allArtifactsPresent is
\* true iff a release named version was found and each of the 11 required
\* asset names of its version is among its assets; foundAssets has exactly
\* the required names as keys, every other asset name is in unknownAssets;
\* when no release is found or the lookup fails, releaseFound and success
\* are false and error is set.
C24_CheckReleaseDetailed ==
    calledCheckReleaseDetailed =>
        /\ call.check[1].outcome = "resolved"
        /\ releaseCheckContract(call.check[1].result)

\* C24, amended: with GITHUB_TOKEN set checkReleaseDetailed returns a result
\* and never throws; without it the process ends inside getOctokit and
\* nothing is returned.  For a release that has a version the result is as
\* the claim says; for a release found without a version releaseFound is
\* true, success is false, error is set and foundAssets and unknownAssets
\* stay empty.
C24_CheckReleaseDetailedWithToken ==
    calledCheckReleaseDetailed =>
        LET result == call.check[1].result
        IN  /\ call.check[1].outcome = (IF call.hasToken THEN "resolved" ELSE "exited")
            /\ call.hasToken /\ namedReleases # {} /\ versionOf(checkedRelease) = <<>> =>
                   /\ result.releaseFound
                   /\ ~result.success /\ ~result.allArtifactsPresent
                   /\ result.error # <<>>
                   /\ result.foundAssets = NoAssets
                   /\ result.unknownAssets = <<>>
            /\ call.hasToken /\ (namedReleases # {} => versionOf(checkedRelease) # <<>>) =>
                   releaseCheckContract(result)

\* C24 witness: the release 0.33.0 carries its 11 assets and notes.txt; the
\* check succeeds and lists notes.txt as unknown.
C24_Witness ==
    /\ calledCheckReleaseDetailed
    /\ call.hasToken
    /\ call.version = <<"0.33.0">>
    /\ namedReleases # {}
    /\ checkedRelease.assets = << <<<<"notes.txt">>>> \o requiredAssets(<<"0.33.0">>) >>
    /\ call.check[1].outcome = "resolved"
    /\ call.check[1].result.success
    /\ call.check[1].result.releaseFound
    /\ call.check[1].result.unknownAssets = << <<"notes.txt">> >>
    /\ call.check[1].result.error = <<>>


\* The applies of a run in their fixed order: the Namespace first when the
\* project is organized by namespace, then the uploads in upload order, each
\* with the namespace or the label of the project.
applyOrder ==
    (IF yaml.organizeBy = "namespace"
     THEN <<[kind |-> "Namespace", name |-> yaml.k8sName, namespace |-> <<>>,
             appName |-> <<>>]>>
     ELSE <<>>)
        \o [i \in 1..Len(yaml.items) |->
               IF yaml.organizeBy = "namespace"
               THEN [yaml.items[i] EXCEPT !.namespace = <<yaml.k8sName>>]
               ELSE [yaml.items[i] EXCEPT !.appName = <<yaml.k8sName>>]]

\* C25: the create-from-YAML flow applies the resources strictly one at a
\* time in a fixed order: with organizeBy = 'namespace' the Namespace first,
\* then the items in upload order, each only after the apply before it has
\* resolved; createOrUpdateProjectAction is dispatched only after every
\* apply has succeeded; if an apply rejects the stage becomes 'error', no
\* later item is applied and no project is stored.
C25_AppliesInOrder ==
    /\ [](/\ Len(yaml.applyCalls) <= Len(applyOrder)
          /\ yaml.applyCalls = SubSeq(applyOrder, 1, Len(yaml.applyCalls))
          /\ yaml.applyResolved = SubSeq(applyOrder, 1, Len(yaml.applyResolved))
          /\ Len(yaml.applyCalls) <= Len(yaml.applyResolved) + 1
          /\ (last.type = "createOrUpdateProjectAction" \/ state.projects # <<>>) =>
                 /\ yaml.stage = "success"
                 /\ yaml.applyResolved = applyOrder
          /\ yaml.stage = "error" =>
                 /\ Len(yaml.applyCalls) = Len(yaml.applyResolved) + 1
                 /\ state.projects = <<>>
                 /\ last = NoDispatch)
    /\ [][/\ yaml.stage = "creating" /\ yaml'.stage = "error" =>
                 /\ yaml'.applyCalls = yaml.applyCalls
                 /\ yaml'.applyResolved = yaml.applyResolved
          /\ yaml.stage = "error" => yaml' = yaml /\ state' = state /\ last' = last]_vars

\* C25 witness: organized by namespace, the Service, the Deployment and the
\* ConfigMap of the upload have been applied after the Namespace, all have
\* resolved and the project is stored.
C25_Witness ==
    /\ yaml.stage = "success"
    /\ yaml.organizeBy = "namespace"
    /\ Len(yaml.items) = 3
    /\ Len(yaml.applyCalls) = 4
    /\ yaml.applyCalls[1].kind = "Namespace"
    /\ yaml.applyCalls[2].kind = "Service"
    /\ yaml.applyCalls[4].kind = "ConfigMap"
    /\ yaml.applyResolved = yaml.applyCalls
    /\ last.type = "createOrUpdateProjectAction"
    /\ hasProjectWithId(state.projects, yaml.projectId)

\* A run that ended in an error after the second apply.
C25_RejectedWitness ==
    /\ yaml.stage = "error"
    /\ Len(yaml.applyCalls) = 2
    /\ Len(yaml.applyResolved) = 1
    /\ Len(yaml.items) = 3

\* C26: the stage only moves form -> creating -> (success | error) and never
\* back to form; a submit that fails the validation stays in form and
\* applies nothing; in every `creating' state createdResources is the
\* sequence of the resources whose apply has resolved, in apply order, and
\* creatingResource is the resource being applied.
C26_StagesAndProgress ==
    /\ [](yaml.stage = "creating" =>
              /\ yaml.createdResources = yaml.applyResolved
              /\ Len(yaml.applyCalls) = Len(yaml.applyResolved) + 1
              /\ yaml.creatingResource = <<yaml.applyCalls[Len(yaml.applyCalls)]>>)
    /\ [][/\ yaml'.stage # yaml.stage =>
                 <<yaml.stage, yaml'.stage>> \in
                     {<<"form", "creating">>, <<"creating", "success">>,
                      <<"creating", "error">>}
          /\ (handleCreate /\ yamlErrors(yaml) # {}) =>
                 /\ yaml'.stage = "form"
                 /\ yaml'.applyCalls = <<>>
                 /\ yaml'.errors # {}
                 /\ UNCHANGED <<state, last>>
          /\ yaml.stage = "form" /\ yaml'.stage = "creating" =>
                 yamlErrors(yaml) = {}]_vars

\* C26 witness: organized by label, the first two of three items have been
\* applied and have resolved, the third is being applied.
C26_Witness ==
    /\ yaml.stage = "creating"
    /\ yaml.organizeBy = "label"
    /\ Len(yaml.items) = 3
    /\ Len(yaml.createdResources) = 2
    /\ yaml.createdResources[1].kind = "Service"
    /\ yaml.createdResources[2].kind = "Deployment"
    /\ yaml.creatingResource[1].kind = "ConfigMap"
    /\ yaml.creatingResource[1].appName = <<yaml.k8sName>>
    /\ yaml.errors = {}


\* C27: from a projects map in which every key is the id of its project,
\* this stays so after any sequence of createOrUpdateProjectAction,
\* deleteProject, importProjects and clearProjects; and
\* createOrUpdateProjectAction with an id the map has replaces that entry in
\* place: the number of projects and every other entry are unchanged.
C27_KeysAreIds ==
    /\ \A i \in 1..Len(state.projects) :
           state.projects[i].key = state.projects[i].value.id
    /\ \A i \in 1..Len(state.projects) : \A j \in (i + 1)..Len(state.projects) :
           state.projects[i].key # state.projects[j].key
    /\ (/\ last.type = "createOrUpdateProjectAction"
        /\ hasKey(last.before.projects, last.generated)) =>
           /\ Len(state.projects) = Len(last.before.projects)
           /\ \A i \in 1..Len(state.projects) :
                  IF last.before.projects[i].key = last.generated
                  THEN /\ state.projects[i].key = last.generated
                       /\ state.projects[i].value.id = last.generated
                       /\ state.projects[i].value.name = last.payload.name
                       /\ state.projects[i].value.updatedAt = clock
                  ELSE state.projects[i] = last.before.projects[i]

\* C27 witness: of two projects the first has been replaced under its id by
\* a payload with another name; the second is as it was.
C27_Witness ==
    /\ last.type = "createOrUpdateProjectAction"
    /\ Len(last.before.projects) = 2
    /\ last.before.projects[1].key = last.generated
    /\ last.payload.id = last.generated
    /\ last.before.projects[1].value.name # last.payload.name
    /\ state.projects[1].value.name = last.payload.name
    /\ state.projects[2] = last.before.projects[2]


\* C28: once stored, the createdAt of a project never changes when the
\* project is updated under the same id through the edit flow of ProjectForm:
\* a submit of the edit form leaves createdAt as it was, updatedAt is the
\* time of the submit, and the other projects are unchanged.
C28_CreatedAtKept ==
    [][(/\ handleSubmit
        /\ route.name = "projectEdit"
        /\ hasProjectWithId(state.projects, route.projectId)
        /\ newErrors(form.project) = {}) =>
           /\ hasKey(state'.projects, route.projectId)
           /\ valueOf(state'.projects, route.projectId).createdAt
                  = valueOf(state.projects, route.projectId).createdAt
           /\ valueOf(state'.projects, route.projectId).updatedAt = clock'
           /\ \A key \in keysOf(state.projects) \ {route.projectId} :
                  valueOf(state'.projects, key) = valueOf(state.projects, key)]_vars

\* A project created at time 1 has been edited at time 2: its createdAt is 2.
C28_EditedProject ==
    /\ last.type = "createOrUpdateProjectAction"
    /\ hasKey(last.before.projects, last.generated)
    /\ valueOf(last.before.projects, last.generated).createdAt = 1
    /\ valueOf(state.projects, last.generated).createdAt = 2
    /\ valueOf(state.projects, last.generated).updatedAt = 2


\* C29: in ProjectResourcesTab the text the accessorFn of the health column
\* returns for a resource is the healthText its Cell renders for it, for
\* every resource.
C29_AccessorMatchesCell ==
    calledHealthAccessorFn =>
        /\ call.text = call.healthText
        /\ call.healthText \in {"Healthy", "Degraded", "Unhealthy", "Pending", "Failed"}

\* C29 witness: a StatefulSet with one of two replicas ready is Degraded in
\* the accessorFn and in the Cell.
C29_Witness ==
    /\ calledHealthAccessorFn
    /\ call.resource.kind = "StatefulSet"
    /\ call.resource.readyReplicas = <<1>>
    /\ call.resource.replicas = <<2>>
    /\ call.text = "Degraded"
    /\ call.healthText = "Degraded"


changedLabelSelector == form.event.handler = "handleLabelSelectorChange"

\* What the claim says of the last change of a label selector row, given
\* whether the new key counts as taken.
labelSelectorChangeContract(taken) ==
    LET before == form.event.before
        after == form.project.labelSelectors
        key == form.event.key
        value == form.event.value
    IN  IF form.event.field = "key"
        THEN /\ Cardinality(DOMAIN after) = Cardinality(DOMAIN before)
             /\ IF key = value \/ taken
                THEN after = before
                ELSE /\ DOMAIN after = (DOMAIN before \ {key}) \cup {value}
                     /\ after[value] = before[key]
                     /\ \A other \in DOMAIN before \ {key} : after[other] = before[other]
        ELSE /\ DOMAIN after = DOMAIN before
             /\ after[key][form.event.field] = value
             /\ \A field \in {"operator", "value"} \ {form.event.field} :
                    after[key][field] = before[key][field]
             /\ \A other \in DOMAIN before \ {key} : after[other] = before[other]

\* C30: in ProjectForm the rename of the key of a label selector never loses
\* or overwrites a selector: a rename to the same key or to a key that exists
\* leaves labelSelectors unchanged; otherwise the selector moves to the new
\* key with its operator and value, every other entry and the number of
\* selectors unchanged; a change of operator or value touches the entry of
\* that key only.
C30_RenameKeepsSelectors ==
    changedLabelSelector =>
        labelSelectorChangeContract(form.event.value \in DOMAIN form.event.before)

\* The same with the names a plain object inherits counted as keys that
\* exist: this is what the form does.
RenameRefusesInheritedNames ==
    changedLabelSelector =>
        labelSelectorChangeContract(\/ form.event.value \in DOMAIN form.event.before
                                    \/ form.event.value \in PrototypeKeys)

\* The rename of `app' to `constructor', a key no selector has, is refused.
RenameToConstructorRefused ==
    /\ changedLabelSelector
    /\ form.event.field = "key"
    /\ form.event.key = "app"
    /\ form.event.value = "constructor"
    /\ "constructor" \notin DOMAIN form.event.before
    /\ form.project.labelSelectors = form.event.before

=============================================================================
